---- MODULE Spec2Model ----
(***************************************************************************)
(* AnalyseSI: the conceptual model (Project), the MCD validator, the       *)
(* MCD -> MLD transformer and the MLD column-override store.                *)
(*                                                                         *)
(* Strings whose characters matter (names, SQL types, override keys) are   *)
(* sequences of one-character strings.  A Python dict is a sequence of     *)
(* [k, v] records in insertion order with pairwise distinct keys.          *)
(* Optional[T] is <<>> (None) or <<x>>.                                     *)
(***************************************************************************)
EXTENDS Naturals, Sequences, FiniteSets, TLC

VARIABLES
    entities,              \* Project._entities
    associations,          \* Project._associations
    links,                 \* Project._links
    mld_column_overrides,  \* Project._mld_column_overrides
    modified,              \* Project.modified
    lastOp,                \* name of the last call
    links_to_remove,       \* the local list of the last remove_entity / remove_association
    tables,                \* value returned by the last call, if it was transform
    fk_log,                \* the columns _add_foreign_keys appended in that call
    errors,                \* value returned by the last call, if it was validate
    last_set,              \* per (table, column): the new_name of its last set_mld_column_name
    deleted_key,           \* the key the last set_mld_column_name deleted, if it deleted one
    dictionary,            \* Dictionary._attributes
    attribute,             \* the Attribute object get_sql_type is called on
    returned,              \* value returned by the last call of any other method
    args,                  \* the arguments of that call
    restored               \* the project q the last q = Project.from_dict(p.to_dict()) built

vars == <<entities, associations, links, mld_column_overrides, modified,
          lastOp, links_to_remove, tables, fk_log, errors, last_set,
          deleted_key, dictionary, attribute, returned, args, restored>>

project == <<entities, associations, links, mld_column_overrides, modified>>

\* The objects beside the project, and the value handed back by their methods
objects == <<dictionary, attribute, returned, args, restored>>

(***************************************************************************)
(* Bounds                                                                  *)
(***************************************************************************)
\* Number of link ids the mutation API is driven with (specification Spec).
MaxLinks == 2

\* Largest number of links of a project handed to transform (SpecT).
MaxTLinks == 3

None == <<>>

Some(x) == <<x>>

\* The arguments of a Dictionary call: the name and the Attribute it was given
Args(old_name, attr) == [old_name |-> old_name, attr |-> attr]

NoArgs == Args(None, None)

(***************************************************************************)
(* Python dict: insertion ordered, assignment to a present key keeps the   *)
(* key's position, del removes the entry.                                  *)
(***************************************************************************)
DictHas(d, key) == \E i \in 1..Len(d) : d[i].k = key

DictIndex(d, key) == CHOOSE i \in 1..Len(d) : d[i].k = key

DictGet(d, key) == IF DictHas(d, key) THEN Some(d[DictIndex(d, key)].v) ELSE None

DictSet(d, key, value) ==
    IF DictHas(d, key)
    THEN [d EXCEPT ![DictIndex(d, key)] = [k |-> key, v |-> value]]
    ELSE Append(d, [k |-> key, v |-> value])

DictDel(d, key) == SelectSeq(d, LAMBDA entry : entry.k # key)

DictValues(d) == [i \in 1..Len(d) |-> d[i].v]

\* [x for x in s if ...] helpers over sequences
RECURSIVE Concat(_)
Concat(ss) == IF ss = <<>> THEN <<>> ELSE Head(ss) \o Concat(Tail(ss))

(***************************************************************************)
(* Names used by the inputs                                                *)
(***************************************************************************)
Client == <<"C", "l", "i", "e", "n", "t">>

Commande == <<"C", "o", "m", "m", "a", "n", "d", "e">>

Ligne == <<"L", "i", "g", "n", "e">>

Passer == <<"P", "a", "s", "s", "e", "r">>

Concerner == <<"C", "o", "n", "c", "e", "r", "n", "e", "r">>

id_client == <<"i", "d", "_", "c", "l", "i", "e", "n", "t">>

id_commande == <<"i", "d", "_", "c", "o", "m", "m", "a", "n", "d", "e">>

nom == <<"n", "o", "m">>

num == <<"n", "u", "m">>

rang == <<"r", "a", "n", "g">>

quantite == <<"q", "u", "a", "n", "t", "i", "t", "e">>

(***************************************************************************)
(* Attribute, Entity, Association, Link                                    *)
(***************************************************************************)
Attribute(name, data_type, size, is_primary_key) ==
    [name |-> name, data_type |-> data_type, size |-> size,
     is_primary_key |-> is_primary_key]

Entity(id, name, attributes) ==
    [id |-> id, name |-> name, attributes |-> attributes, x |-> 0, y |-> 0]

Association(id, name, attributes) ==
    [id |-> id, name |-> name, attributes |-> attributes, x |-> 0, y |-> 0]

Link(id, entity_id, association_id, cardinality_min, cardinality_max) ==
    [id |-> id, entity_id |-> entity_id, association_id |-> association_id,
     cardinality_min |-> cardinality_min, cardinality_max |-> cardinality_max]

EntityIds == {"e1", "e2"}

AssociationIds == {"a1", "a2"}

LinkIdPool == <<"l1", "l2", "l3", "l4", "l5", "l6">>

LinkIds == {LinkIdPool[i] : i \in 1..MaxLinks}

\* The Entity objects add_entity is called with.
EntityInputs ==
    { Entity("e1", Client, <<Attribute(id_client, "INT", None, TRUE),
                             Attribute(nom, "VARCHAR", Some(100), FALSE)>>),
      Entity("e2", Commande, <<Attribute(id_commande, "INT", None, TRUE)>>),
      Entity("e2", Ligne, <<Attribute(num, "INT", None, TRUE),
                            Attribute(rang, "INT", None, TRUE)>>),
      Entity("e2", Ligne, <<Attribute(nom, "VARCHAR", Some(100), FALSE)>>) }

\* The Association objects add_association is called with.
AssociationInputs ==
    { Association("a1", Passer, <<>>),
      Association("a1", Concerner, <<Attribute(quantite, "INT", None, FALSE)>>),
      Association("a2", Passer, <<>>) }

\* The cardinalities of the links handed to transform: the minimum of a
\* link with maximum "N" is never read.
TCardinalities == {<<"0", "1">>, <<"1", "1">>, <<"0", "N">>}

\* Link(entity_id, association_id): the cardinality defaults of the dataclass
DefaultCardinality == <<"0", "N">>

\* The Link objects add_link is called with: any entity id and any
\* association id, stored or not.
LinkInputs ==
    { Link(l, e, a, DefaultCardinality[1], DefaultCardinality[2]) :
        l \in LinkIds, e \in EntityIds, a \in AssociationIds }

(***************************************************************************)
(* Project: queries                                                        *)
(***************************************************************************)
get_entity(es, entity_id) == DictGet(es, entity_id)

get_all_entities(es) == DictValues(es)

get_all_associations(as) == DictValues(as)

get_links_for_entity(ls, entity_id) ==
    SelectSeq(DictValues(ls), LAMBDA link : link.entity_id = entity_id)

get_links_for_association(ls, association_id) ==
    SelectSeq(DictValues(ls), LAMBDA link : link.association_id = association_id)

(***************************************************************************)
(* Attribute.get_sql_type and the identifier sanitizer                     *)
(***************************************************************************)
UpperCase ==
    <<"A", "B", "C", "D", "E", "F", "G", "H", "I", "J", "K", "L", "M",
      "N", "O", "P", "Q", "R", "S", "T", "U", "V", "W", "X", "Y", "Z">>

LowerCase ==
    <<"a", "b", "c", "d", "e", "f", "g", "h", "i", "j", "k", "l", "m",
      "n", "o", "p", "q", "r", "s", "t", "u", "v", "w", "x", "y", "z">>

DecimalDigits == <<"0", "1", "2", "3", "4", "5", "6", "7", "8", "9">>

UpperChars == {UpperCase[i] : i \in 1..Len(UpperCase)}

AlnumChars ==
    UpperChars \cup {LowerCase[i] : i \in 1..Len(LowerCase)}
               \cup {DecimalDigits[i] : i \in 1..Len(DecimalDigits)}

ToLower ==
    [c \in UpperChars |-> LowerCase[CHOOSE i \in 1..Len(UpperCase) : UpperCase[i] = c]]

LowerChars == {LowerCase[i] : i \in 1..Len(LowerCase)}

ToUpper ==
    [c \in LowerChars |-> UpperCase[CHOOSE i \in 1..Len(LowerCase) : LowerCase[i] = c]]

\* str.upper()
str_upper(s) == [i \in 1..Len(s) |-> IF s[i] \in LowerChars THEN ToUpper[s[i]] ELSE s[i]]


\* str.lower() on one character
lower(c) == IF c \in UpperChars THEN ToLower[c] ELSE c

\* str.isalnum() on one character
isalnum(c) == c \in AlnumChars

\* str(n) for a natural number
RECURSIVE str(_)
str(n) ==
    IF n < 10 THEN <<DecimalDigits[n + 1]>>
    ELSE str(n \div 10) \o <<DecimalDigits[(n % 10) + 1]>>

SizedTypes == {"VARCHAR", "CHAR", "DECIMAL"}

\* Faulty variant of get_sql_type: the size is written for every data type
get_sql_type_any_type(attr) ==
    IF attr.size # None
    THEN <<attr.data_type, "(">> \o str(attr.size[1]) \o <<")">>
    ELSE <<attr.data_type>>


get_sql_type(attr) ==
    IF attr.size # None /\ attr.data_type \in SizedTypes
    THEN <<attr.data_type, "(">> \o str(attr.size[1]) \o <<")">>
    ELSE <<attr.data_type>>

_safe_name(name) ==
    LET lowered == [i \in 1..Len(name) |-> lower(name[i])]
        replaced == [i \in 1..Len(name) |->
                       IF lowered[i] \in {" ", "-"} THEN "_" ELSE lowered[i]]
    IN  SelectSeq(replaced, LAMBDA c : isalnum(c) \/ c = "_")

get_primary_keys(entity) ==
    SelectSeq(entity.attributes, LAMBDA attr : attr.is_primary_key)

has_attributes(assoc) == Len(assoc.attributes) > 0

(***************************************************************************)
(* MLDColumn, MLDTable and MLDTransformer                                  *)
(***************************************************************************)
MLDColumn(name, data_type, is_primary_key, is_foreign_key, references_table, references_column, is_nullable) ==
    [name |-> name, data_type |-> data_type,
     is_primary_key |-> is_primary_key, is_foreign_key |-> is_foreign_key,
     references_table |-> references_table,
     references_column |-> references_column, is_nullable |-> is_nullable]

MLDTable(name, columns, source_type, source_id) ==
    [name |-> name, columns |-> columns, source_type |-> source_type,
     source_id |-> source_id]

fk_name(entity, pk_attr) ==
    <<"f", "k", "_">> \o _safe_name(entity.name) \o <<"_">> \o pk_attr.name

_transform_entity(entity) ==
    MLDTable(_safe_name(entity.name),
             [i \in 1..Len(entity.attributes) |->
                LET attr == entity.attributes[i]
                IN  MLDColumn(_safe_name(attr.name), get_sql_type(attr),
                              attr.is_primary_key, FALSE, None, None,
                              ~attr.is_primary_key)],
             "entity", Some(entity.id))

\* Faulty variant of _create_junction_table: only the links of maximum "N" give key columns
_create_junction_table_n_links(es, assoc, assoc_links) ==
    LET n_links == SelectSeq(assoc_links, LAMBDA link : link.cardinality_max = "N")
        LinkColumns(link) ==
            LET entity == get_entity(es, link.entity_id)
            IN  IF entity # None
                THEN LET pks == get_primary_keys(entity[1])
                     IN  [i \in 1..Len(pks) |->
                            MLDColumn(fk_name(entity[1], pks[i]),
                                      get_sql_type(pks[i]), TRUE, TRUE,
                                      Some(_safe_name(entity[1].name)),
                                      Some(_safe_name(pks[i].name)), FALSE)]
                ELSE <<>>
        fk_columns == Concat([i \in 1..Len(n_links) |-> LinkColumns(n_links[i])])
        carrying == [i \in 1..Len(assoc.attributes) |->
                       LET attr == assoc.attributes[i]
                       IN  MLDColumn(_safe_name(attr.name), get_sql_type(attr),
                                     FALSE, FALSE, None, None, TRUE)]
    IN  MLDTable(_safe_name(assoc.name), fk_columns \o carrying,
                 "association", Some(assoc.id))


_create_junction_table(es, assoc, assoc_links) ==
    LET LinkColumns(link) ==
            LET entity == get_entity(es, link.entity_id)
            IN  IF entity # None
                THEN LET pks == get_primary_keys(entity[1])
                     IN  [i \in 1..Len(pks) |->
                            MLDColumn(fk_name(entity[1], pks[i]),
                                      get_sql_type(pks[i]), TRUE, TRUE,
                                      Some(_safe_name(entity[1].name)),
                                      Some(_safe_name(pks[i].name)), FALSE)]
                ELSE <<>>
        fk_columns == Concat([i \in 1..Len(assoc_links) |-> LinkColumns(assoc_links[i])])
        carrying == [i \in 1..Len(assoc.attributes) |->
                       LET attr == assoc.attributes[i]
                       IN  MLDColumn(_safe_name(attr.name), get_sql_type(attr),
                                     FALSE, FALSE, None, None, TRUE)]
    IN  MLDTable(_safe_name(assoc.name), fk_columns \o carrying,
                 "association", Some(assoc.id))

\* Faulty variant of _transform_association: the test for fewer than 2 links is missing
_transform_association_unguarded(es, ls, assoc) ==
    LET assoc_links == get_links_for_association(ls, assoc.id)
        n_links == SelectSeq(assoc_links, LAMBDA link : link.cardinality_max = "N")
    IN  IF Len(n_links) >= 2 \/ has_attributes(assoc)
        THEN Some(_create_junction_table(es, assoc, assoc_links))
        ELSE None

\* None, or the junction table of the association
_transform_association(es, ls, assoc) ==
    LET assoc_links == get_links_for_association(ls, assoc.id)
        n_links == SelectSeq(assoc_links, LAMBDA link : link.cardinality_max = "N")
    IN  IF Len(assoc_links) < 2 THEN None
        ELSE IF Len(n_links) >= 2 \/ has_attributes(assoc)
             THEN Some(_create_junction_table(es, assoc, assoc_links))
             ELSE None

\* Faulty variant of IsManySide: the test of the other link's maximum is missing
IsManySide_any_cardinality(entity, other_link) == other_link.entity_id # entity.id

\* The other link is on another entity and has maximum "N"
IsManySide(entity, other_link) ==
    other_link.entity_id # entity.id /\ other_link.cardinality_max = "N"

\* Faulty variant of FkColumn: the referenced column is the attribute name as written
FkColumn_raw_reference(other_entity, pk_attr, link) ==
    MLDColumn(fk_name(other_entity, pk_attr), get_sql_type(pk_attr), FALSE, TRUE,
              Some(_safe_name(other_entity.name)), Some(pk_attr.name),
              link.cardinality_min = "0")


\* Faulty variant of FkColumn: nullable when the minimum is "1"
FkColumn_inverted(other_entity, pk_attr, link) ==
    MLDColumn(fk_name(other_entity, pk_attr), get_sql_type(pk_attr), FALSE, TRUE,
              Some(_safe_name(other_entity.name)), Some(_safe_name(pk_attr.name)),
              link.cardinality_min = "1")

\* The foreign-key column for one primary key of the "N"-side entity
FkColumn(other_entity, pk_attr, link) ==
    MLDColumn(fk_name(other_entity, pk_attr), get_sql_type(pk_attr), FALSE, TRUE,
              Some(_safe_name(other_entity.name)), Some(_safe_name(pk_attr.name)),
              link.cardinality_min = "0")

\* The columns _add_foreign_keys tries to append, in the order of its loops:
\* entity, link of the entity with max "1", other link of the association
\* with max "N" on another entity that is stored, primary key of that entity.
FkCandidates(es, ls) ==
    LET OfOther(entity, link, other_link) ==
            IF IsManySide(entity, other_link)
            THEN LET other_entity == get_entity(es, other_link.entity_id)
                 IN  IF other_entity # None
                     THEN LET pks == get_primary_keys(other_entity[1])
                          IN  [i \in 1..Len(pks) |->
                                 [entity_id |-> entity.id,
                                  association_id |-> link.association_id,
                                  link_id |-> link.id,
                                  column |-> FkColumn(other_entity[1], pks[i], link)]]
                     ELSE <<>>
            ELSE <<>>
        OfLink(entity, link) ==
            IF link.cardinality_max = "1"
            THEN LET assoc_links == get_links_for_association(ls, link.association_id)
                 IN  Concat([i \in 1..Len(assoc_links) |->
                               OfOther(entity, link, assoc_links[i])])
            ELSE <<>>
        OfEntity(entity) ==
            LET entity_links == get_links_for_entity(ls, entity.id)
            IN  Concat([i \in 1..Len(entity_links) |-> OfLink(entity, entity_links[i])])
        all == get_all_entities(es)
    IN  Concat([i \in 1..Len(all) |-> OfEntity(all[i])])

\* entity_tables[entity_id]: the last table with that source_id, if any
EntityTableIndex(tbls, entity_id) ==
    LET hits == {i \in 1..Len(tbls) :
                   tbls[i].source_type = "entity" /\ tbls[i].source_id = Some(entity_id)}
    IN  IF hits = {} THEN 0 ELSE CHOOSE i \in hits : \A j \in hits : j <= i

\* Appends each candidate whose name is not yet a column name of the table.
\* log records what was appended and for which link.
RECURSIVE AppendForeignKeys(_, _, _)
AppendForeignKeys(cands, tbls, log) ==
    IF cands = <<>> THEN [tables |-> tbls, log |-> log]
    ELSE LET c == Head(cands)
             t == EntityTableIndex(tbls, c.entity_id)
         IN  IF t = 0 \/ \E j \in 1..Len(tbls[t].columns) :
                            tbls[t].columns[j].name = c.column.name
             THEN AppendForeignKeys(Tail(cands), tbls, log)
             ELSE AppendForeignKeys(
                      Tail(cands),
                      [tbls EXCEPT ![t].columns = Append(@, c.column)],
                      Append(log, c))

_add_foreign_keys(es, ls, tbls) ==
    AppendForeignKeys(FkCandidates(es, ls), tbls, <<>>)

\* [tables, log]: the tables transform returns, and the foreign keys that
\* _add_foreign_keys appended to them
\* Faulty variant of MLDTransformer_transform: the junction tables come first
MLDTransformer_transform_junctions_first(es, as, ls) ==
    LET all_entities == get_all_entities(es)
        all_assocs == get_all_associations(as)
        entity_tables == [i \in 1..Len(all_entities) |-> _transform_entity(all_entities[i])]
        junctions == Concat([i \in 1..Len(all_assocs) |->
                               _transform_association(es, ls, all_assocs[i])])
    IN  _add_foreign_keys(es, ls, junctions \o entity_tables)


MLDTransformer_transform(es, as, ls) ==
    LET all_entities == get_all_entities(es)
        all_assocs == get_all_associations(as)
        entity_tables == [i \in 1..Len(all_entities) |-> _transform_entity(all_entities[i])]
        junctions == Concat([i \in 1..Len(all_assocs) |->
                               _transform_association(es, ls, all_assocs[i])])
    IN  _add_foreign_keys(es, ls, entity_tables \o junctions)

(***************************************************************************)
(* MCDController.validate                                                  *)
(***************************************************************************)
Diagnostic(text, name) == [text |-> text, name |-> name]

\* Faulty variant of MCDController_validate: returns at the first rule that reports
MCDController_validate_short_circuit(es, as, ls) ==
    LET all_entities == get_all_entities(es)
        all_assocs == get_all_associations(as)
        NoPk(entity) ==
            IF \E i \in 1..Len(entity.attributes) : entity.attributes[i].is_primary_key
            THEN <<>>
            ELSE <<Diagnostic("Entity '{}' has no primary key attribute.", entity.name)>>
        FewLinks(assoc) ==
            IF Len(get_links_for_association(ls, assoc.id)) < 2
            THEN <<Diagnostic("Association '{}' must be connected to at least 2 entities.",
                              assoc.name)>>
            ELSE <<>>
        Orphan(entity) ==
            IF Len(get_links_for_entity(ls, entity.id)) = 0
            THEN <<Diagnostic("Entity '{}' is not connected to any association.",
                              entity.name)>>
            ELSE <<>>
        no_pk == Concat([i \in 1..Len(all_entities) |-> NoPk(all_entities[i])])
        few_links == Concat([i \in 1..Len(all_assocs) |-> FewLinks(all_assocs[i])])
        orphans == Concat([i \in 1..Len(all_entities) |-> Orphan(all_entities[i])])
    IN  IF Len(all_entities) = 0
        THEN <<Diagnostic("No entities defined. Add at least one entity.", <<>>)>>
        ELSE IF no_pk # <<>> THEN no_pk
        ELSE IF few_links # <<>> THEN few_links
        ELSE orphans


MCDController_validate(es, as, ls) ==
    LET all_entities == get_all_entities(es)
        all_assocs == get_all_associations(as)
        no_entities ==
            IF Len(all_entities) = 0
            THEN <<Diagnostic("No entities defined. Add at least one entity.", <<>>)>>
            ELSE <<>>
        NoPk(entity) ==
            IF \E i \in 1..Len(entity.attributes) : entity.attributes[i].is_primary_key
            THEN <<>>
            ELSE <<Diagnostic("Entity '{}' has no primary key attribute.", entity.name)>>
        FewLinks(assoc) ==
            IF Len(get_links_for_association(ls, assoc.id)) < 2
            THEN <<Diagnostic("Association '{}' must be connected to at least 2 entities.",
                              assoc.name)>>
            ELSE <<>>
        Orphan(entity) ==
            IF Len(get_links_for_entity(ls, entity.id)) = 0
            THEN <<Diagnostic("Entity '{}' is not connected to any association.",
                              entity.name)>>
            ELSE <<>>
    IN  no_entities
        \o Concat([i \in 1..Len(all_entities) |-> NoPk(all_entities[i])])
        \o Concat([i \in 1..Len(all_assocs) |-> FewLinks(all_assocs[i])])
        \o Concat([i \in 1..Len(all_entities) |-> Orphan(all_entities[i])])

(***************************************************************************)
(* Project: mutation API.  The value returned by the previous transform or *)
(* validate call is dropped by every other call.                           *)
(***************************************************************************)
NoResult(op) ==
    /\ lastOp' = op
    /\ tables' = <<>>
    /\ fk_log' = <<>>
    /\ errors' = <<>>
    /\ UNCHANGED <<last_set, deleted_key, objects>>

add_entity(entity) ==
    /\ entities' = DictSet(entities, entity.id, entity)
    /\ modified' = TRUE
    /\ UNCHANGED <<associations, links, mld_column_overrides>>
    /\ links_to_remove' = <<>>
    /\ NoResult("add_entity")

\* for link_id in ids: del d[link_id]
RECURSIVE DictDelAll(_, _)
DictDelAll(d, ids) ==
    IF ids = <<>> THEN d ELSE DictDelAll(DictDel(d, Head(ids)), Tail(ids))

\* Faulty variant of EntityLinkIds: the comprehension without its condition
EntityLinkIds_unconditional(ls, entity_id) == [i \in 1..Len(ls) |-> ls[i].k]

EntityLinkIds(ls, entity_id) ==
    LET hit == SelectSeq(ls, LAMBDA entry : entry.v.entity_id = entity_id)
    IN  [i \in 1..Len(hit) |-> hit[i].k]

AssociationLinkIds(ls, association_id) ==
    LET hit == SelectSeq(ls, LAMBDA entry : entry.v.association_id = association_id)
    IN  [i \in 1..Len(hit) |-> hit[i].k]

remove_entity(entity_id) ==
    /\ IF DictHas(entities, entity_id)
       THEN /\ links_to_remove' = EntityLinkIds(links, entity_id)
            /\ links' = DictDelAll(links, links_to_remove')
            /\ entities' = DictDel(entities, entity_id)
            /\ modified' = TRUE
       ELSE /\ links_to_remove' = <<>>
            /\ UNCHANGED <<links, entities, modified>>
    /\ UNCHANGED <<associations, mld_column_overrides>>
    /\ NoResult("remove_entity")

add_association(association) ==
    /\ associations' = DictSet(associations, association.id, association)
    /\ modified' = TRUE
    /\ UNCHANGED <<entities, links, mld_column_overrides>>
    /\ links_to_remove' = <<>>
    /\ NoResult("add_association")

remove_association(association_id) ==
    /\ IF DictHas(associations, association_id)
       THEN /\ links_to_remove' = AssociationLinkIds(links, association_id)
            /\ links' = DictDelAll(links, links_to_remove')
            /\ associations' = DictDel(associations, association_id)
            /\ modified' = TRUE
       ELSE /\ links_to_remove' = <<>>
            /\ UNCHANGED <<links, associations, modified>>
    /\ UNCHANGED <<entities, mld_column_overrides>>
    /\ NoResult("remove_association")

add_link(link) ==
    /\ links' = DictSet(links, link.id, link)
    /\ modified' = TRUE
    /\ UNCHANGED <<entities, associations, mld_column_overrides>>
    /\ links_to_remove' = <<>>
    /\ NoResult("add_link")

\* Faulty variant of remove_link: the flag is not set
remove_link_unflagged(link_id) ==
    /\ IF DictHas(links, link_id)
       THEN links' = DictDel(links, link_id)
       ELSE UNCHANGED links
    /\ UNCHANGED <<entities, associations, mld_column_overrides, modified>>
    /\ links_to_remove' = <<>>
    /\ NoResult("remove_link")


remove_link(link_id) ==
    /\ IF DictHas(links, link_id)
       THEN /\ links' = DictDel(links, link_id)
            /\ modified' = TRUE
       ELSE UNCHANGED <<links, modified>>
    /\ UNCHANGED <<entities, associations, mld_column_overrides>>
    /\ links_to_remove' = <<>>
    /\ NoResult("remove_link")

(***************************************************************************)
(* Project: MLD column overrides                                           *)
(***************************************************************************)
\* The table names, column names and new names the override store is
\* driven with; "" is <<>>.
OvTables == { <<"T">>, <<"T", ".", "A">> }

OvColumns == { <<"B">>, <<"A", ".", "B">> }

OvNewNames == { <<>>, <<"B">>, <<"X">>, <<"Y">> }

OvPairs == OvTables \X OvColumns

\* f"{table_name}.{original_name}"
override_key(table_name, original_name) == table_name \o <<".">> \o original_name

\* Faulty variant of set_mld_column_name: the elif branch that deletes the key is missing
set_mld_column_name_keep(table_name, original_name, new_name) ==
    /\ LET key == override_key(table_name, original_name)
       IN  IF new_name # <<>> /\ new_name # original_name
           THEN mld_column_overrides' = DictSet(mld_column_overrides, key, new_name)
           ELSE UNCHANGED mld_column_overrides
    /\ deleted_key' = None
    /\ modified' = TRUE
    /\ last_set' = [last_set EXCEPT ![<<table_name, original_name>>] = Some(new_name)]
    /\ lastOp' = "set_mld_column_name"
    /\ UNCHANGED <<entities, associations, links, links_to_remove,
                   tables, fk_log, errors, objects>>

set_mld_column_name(table_name, original_name, new_name) ==
    /\ LET key == override_key(table_name, original_name)
       IN  IF new_name # <<>> /\ new_name # original_name
           THEN /\ mld_column_overrides' = DictSet(mld_column_overrides, key, new_name)
                /\ deleted_key' = None
           ELSE IF DictHas(mld_column_overrides, key)
                THEN /\ mld_column_overrides' = DictDel(mld_column_overrides, key)
                     /\ deleted_key' = Some(key)
                ELSE /\ UNCHANGED mld_column_overrides
                     /\ deleted_key' = None
    /\ modified' = TRUE
    /\ last_set' = [last_set EXCEPT ![<<table_name, original_name>>] = Some(new_name)]
    /\ lastOp' = "set_mld_column_name"
    /\ UNCHANGED <<entities, associations, links, links_to_remove,
                   tables, fk_log, errors, objects>>

get_mld_column_name(overrides, table_name, original_name) ==
    LET found == DictGet(overrides, override_key(table_name, original_name))
    IN  IF found # None THEN found[1] ELSE original_name

\* Project.__init__
Init ==
    /\ entities = <<>>
    /\ associations = <<>>
    /\ links = <<>>
    /\ mld_column_overrides = <<>>
    /\ modified = FALSE
    /\ lastOp = "init"
    /\ links_to_remove = <<>>
    /\ tables = <<>>
    /\ fk_log = <<>>
    /\ errors = <<>>
    /\ last_set = [p \in OvPairs |-> None]
    /\ deleted_key = None
    /\ dictionary = <<>>
    /\ attribute = None
    /\ returned = None
    /\ args = NoArgs
    /\ restored = None

Next ==
    \/ \E entity \in EntityInputs : add_entity(entity)
    \/ \E entity_id \in EntityIds : remove_entity(entity_id)
    \/ \E association \in AssociationInputs : add_association(association)
    \/ \E association_id \in AssociationIds : remove_association(association_id)
    \/ \E link \in LinkInputs : add_link(link)
    \/ \E link_id \in LinkIds : remove_link(link_id)

Spec == Init /\ [][Next]_vars

(***************************************************************************)
(* Derivation on a given project: transform and validate are called on a   *)
(* project built by add_entity, add_association and add_link calls.        *)
(***************************************************************************)
\* Faulty variant of transform: the foreign keys are appended to the attribute list
\* of the entity as well
transform_aliased ==
    /\ LET run == MLDTransformer_transform(entities, associations, links)
       IN  /\ tables' = run.tables
           /\ fk_log' = run.log
           /\ entities' =
                [i \in 1..Len(entities) |->
                   LET added == SelectSeq(run.log,
                                         LAMBDA c : c.entity_id = entities[i].k)
                   IN  [entities[i] EXCEPT !.v.attributes =
                          @ \o [n \in 1..Len(added) |->
                                  Attribute(added[n].column.name, "INT", None, FALSE)]]]
    /\ errors' = <<>>
    /\ lastOp' = "transform"
    /\ UNCHANGED <<associations, links, mld_column_overrides, modified,
                   links_to_remove, last_set, deleted_key, objects>>

\* Faulty variant of transform: the column names of the result are read through the
\* override store
transform_overridden ==
    /\ LET run == MLDTransformer_transform(entities, associations, links)
       IN  /\ tables' =
                [t \in 1..Len(run.tables) |->
                   [run.tables[t] EXCEPT !.columns =
                      [c \in 1..Len(@) |->
                         [@[c] EXCEPT !.name =
                            get_mld_column_name(mld_column_overrides,
                                                str_upper(run.tables[t].name), @)]]]]
           /\ fk_log' = run.log
    /\ errors' = <<>>
    /\ lastOp' = "transform"
    /\ UNCHANGED <<project, links_to_remove, last_set, deleted_key, objects>>


\* Faulty variant of transform: returns no table when validate reports a diagnostic
transform_blocked ==
    /\ LET run == MLDTransformer_transform(entities, associations, links)
       IN  IF MCDController_validate(entities, associations, links) = <<>>
           THEN /\ tables' = run.tables
                /\ fk_log' = run.log
           ELSE /\ tables' = <<>>
                /\ fk_log' = <<>>
    /\ errors' = <<>>
    /\ lastOp' = "transform"
    /\ UNCHANGED <<project, links_to_remove, last_set, deleted_key, objects>>


transform ==
    /\ LET run == MLDTransformer_transform(entities, associations, links)
       IN  /\ tables' = run.tables
           /\ fk_log' = run.log
    /\ errors' = <<>>
    /\ lastOp' = "transform"
    /\ UNCHANGED <<project, links_to_remove, last_set, deleted_key, objects>>

validate ==
    /\ errors' = MCDController_validate(entities, associations, links)
    /\ tables' = <<>>
    /\ fk_log' = <<>>
    /\ lastOp' = "validate"
    /\ UNCHANGED <<project, links_to_remove, last_set, deleted_key, objects>>

\* The entity dicts handed to transform: e1, or e1 then e2
TEntityDicts ==
    { <<[k |-> e.id, v |-> e]>> : e \in {x \in EntityInputs : x.id = "e1"} }
    \cup { <<[k |-> e.id, v |-> e], [k |-> f.id, v |-> f]>> :
             e \in {x \in EntityInputs : x.id = "e1"},
             f \in {x \in EntityInputs : x.id = "e2"} }

\* The association dicts handed to transform: a1, or a1 then a2
TAssociationDicts ==
    { <<[k |-> a.id, v |-> a]>> : a \in {x \in AssociationInputs : x.id = "a1"} }
    \cup { <<[k |-> a.id, v |-> a], [k |-> b.id, v |-> b]>> :
             a \in {x \in AssociationInputs : x.id = "a1"},
             b \in {x \in AssociationInputs : x.id = "a2"} }

\* The links handed to transform: any link on a1, and on a2 the two links
\* of a one-to-many association between e1 and e2
TLinkChoices ==
    { [entity_id |-> e, association_id |-> "a1", card |-> c] :
        e \in EntityIds, c \in TCardinalities }
    \cup { [entity_id |-> "e1", association_id |-> "a2", card |-> <<"1", "1">>],
           [entity_id |-> "e2", association_id |-> "a2", card |-> <<"0", "N">>] }

\* The link dicts add_link calls build: n links with the ids l1..ln
TLinkDicts ==
    UNION { { [i \in 1..n |->
                 [k |-> LinkIdPool[i],
                  v |-> Link(LinkIdPool[i], f[i].entity_id, f[i].association_id,
                             f[i].card[1], f[i].card[2])]] :
              f \in [1..n -> TLinkChoices] } : n \in 0..MaxTLinks }

InitT ==
    /\ entities \in TEntityDicts
    /\ associations \in TAssociationDicts
    /\ links \in TLinkDicts
    /\ mld_column_overrides = <<>>
    /\ modified = TRUE
    /\ lastOp = "init"
    /\ links_to_remove = <<>>
    /\ tables = <<>>
    /\ fk_log = <<>>
    /\ errors = <<>>
    /\ last_set = [p \in OvPairs |-> None]
    /\ deleted_key = None
    /\ dictionary = <<>>
    /\ attribute = None
    /\ returned = None
    /\ args = NoArgs
    /\ restored = None

NextT ==
    \/ transform
    \/ validate

SpecT == InitT /\ [][NextT]_vars

(***************************************************************************)
(* The override store of a new project, driven by set_mld_column_name      *)
(***************************************************************************)
NextOv ==
    \E table_name \in OvTables, original_name \in OvColumns, new_name \in OvNewNames :
        set_mld_column_name(table_name, original_name, new_name)

SpecOv == Init /\ [][NextOv]_vars

(***************************************************************************)
(***************************************************************************)
(* Derivation and renaming: the MLD view renames the columns of the tables *)
(* transform returned and calls transform again.                           *)
(***************************************************************************)
\* The table name and the column names the view passes to
\* set_mld_column_name: those of the table of the entity Client
MldTableNames == { str_upper(_safe_name(Client)) }

MldColumnNames == { _safe_name(id_client), _safe_name(nom) }

MldNewNames == { <<>>, <<"X">> }

\* The links of the project: none, or a one-to-many association a1 between
\* e1 and e2, in either direction
DLinkDicts ==
    { <<>> }
    \cup { <<[k |-> "l1", v |-> Link("l1", "e1", "a1", c[1], c[2])],
             [k |-> "l2", v |-> Link("l2", "e2", "a1", d[1], d[2])]>> :
             c \in TCardinalities, d \in TCardinalities }

InitD ==
    /\ entities \in TEntityDicts
    /\ associations \in TAssociationDicts
    /\ links \in DLinkDicts
    /\ mld_column_overrides = <<>>
    /\ modified = TRUE
    /\ lastOp = "init"
    /\ links_to_remove = <<>>
    /\ tables = <<>>
    /\ fk_log = <<>>
    /\ errors = <<>>
    /\ last_set = [p \in MldTableNames \X MldColumnNames |-> None]
    /\ deleted_key = None
    /\ dictionary = <<>>
    /\ attribute = None
    /\ returned = None
    /\ args = NoArgs
    /\ restored = None

NextD ==
    \/ transform
    \/ \E table_name \in MldTableNames, original_name \in MldColumnNames, new_name \in MldNewNames :
          set_mld_column_name(table_name, original_name, new_name)

SpecD == InitD /\ [][NextD]_vars


(***************************************************************************)
(* Validation and derivation of a project under edition: validate and      *)
(* transform are called between the calls of the mutation API.             *)
(***************************************************************************)
\* The associations and links the project is edited with: one association,
\* two link ids, links of either maximum on any entity id
VAssociationInputs == { a \in AssociationInputs : a.id = "a1" }

VLinkIds == {"l1", "l2"}

VCardinalities == { <<"1", "1">>, <<"0", "N">> }

VLinkInputs ==
    { Link(l, e, "a1", c[1], c[2]) :
        l \in VLinkIds, e \in EntityIds, c \in VCardinalities }

NextV ==
    \/ \E entity \in EntityInputs : add_entity(entity)
    \/ \E entity_id \in EntityIds : remove_entity(entity_id)
    \/ \E association \in VAssociationInputs : add_association(association)
    \/ \E association \in VAssociationInputs : remove_association(association.id)
    \/ \E link \in VLinkInputs : add_link(link)
    \/ \E link_id \in VLinkIds : remove_link(link_id)
    \/ transform
    \/ validate

SpecV == Init /\ [][NextV]_vars


(***************************************************************************)
(* Attribute.get_sql_type on an attribute of any data type and size        *)
(***************************************************************************)
\* Largest size of the attributes get_sql_type is called on
MaxSize == 12

DataTypes == {"VARCHAR", "CHAR", "DECIMAL", "INT", "DATE", "TEXT", "varchar"}

AttributeInputs ==
    { Attribute(nom, data_type, size, is_primary_key) :
        data_type \in DataTypes,
        size \in {None} \cup {Some(n) : n \in 0..MaxSize},
        is_primary_key \in BOOLEAN }

InitQ ==
    /\ entities = <<>>
    /\ associations = <<>>
    /\ links = <<>>
    /\ mld_column_overrides = <<>>
    /\ modified = FALSE
    /\ lastOp = "init"
    /\ links_to_remove = <<>>
    /\ tables = <<>>
    /\ fk_log = <<>>
    /\ errors = <<>>
    /\ last_set = [p \in OvPairs |-> None]
    /\ deleted_key = None
    /\ dictionary = <<>>
    /\ attribute \in {Some(attr) : attr \in AttributeInputs}
    /\ returned = None
    /\ args = NoArgs
    /\ restored = None

Attribute_get_sql_type ==
    /\ attribute # None
    /\ returned' = Some(get_sql_type(attribute[1]))
    /\ lastOp' = "get_sql_type"
    /\ UNCHANGED <<project, links_to_remove, tables, fk_log, errors, last_set,
                   deleted_key, dictionary, attribute, args, restored>>

NextQ == Attribute_get_sql_type

SpecQ == InitQ /\ [][NextQ]_vars


(***************************************************************************)
(* Derivation on projects whose entities, associations and links were      *)
(* inserted in any order                                                   *)
(***************************************************************************)
\* dict built by inserting the elements of a sequence of objects under their ids
DictOf(objs) == [i \in 1..Len(objs) |-> [k |-> objs[i].id, v |-> objs[i]]]

\* e1, or e1 and e2 inserted in either order
OEntityDicts ==
    { DictOf(<<e>>) : e \in {x \in EntityInputs : x.id = "e1"} }
    \cup UNION { { DictOf(<<e, f>>), DictOf(<<f, e>>) } :
                   e \in {x \in EntityInputs : x.id = "e1"},
                   f \in {x \in EntityInputs : x.id = "e2"} }

\* a1, or a1 and a2 inserted in either order
OAssociationDicts ==
    { DictOf(<<a>>) : a \in {x \in AssociationInputs : x.id = "a1"} }
    \cup UNION { { DictOf(<<a, b>>), DictOf(<<b, a>>) } :
                   a \in {x \in AssociationInputs : x.id = "a1"},
                   b \in {x \in AssociationInputs : x.id = "a2"} }

\* Two links on a1, of either maximum and on any entities
OLinksOfA1 ==
    { << Link("l1", e, "a1", c[1], c[2]), Link("l2", f, "a1", d[1], d[2]) >> :
        e \in EntityIds, f \in EntityIds, c \in VCardinalities, d \in VCardinalities }

\* No link on a2, or two links between e1 and e2: many-to-many or one-to-many
OLinksOfA2 ==
    { <<>>,
      << Link("l3", "e1", "a2", "0", "N"), Link("l4", "e2", "a2", "0", "N") >>,
      << Link("l3", "e1", "a2", "1", "1"), Link("l4", "e2", "a2", "0", "N") >> }

\* The links of a1 inserted before or after those of a2
OLinkDicts ==
    UNION { { DictOf(x \o y), DictOf(y \o x) } : x \in OLinksOfA1, y \in OLinksOfA2 }

InitO ==
    /\ entities \in OEntityDicts
    /\ associations \in OAssociationDicts
    /\ links \in OLinkDicts
    /\ mld_column_overrides = <<>>
    /\ modified = TRUE
    /\ lastOp = "init"
    /\ links_to_remove = <<>>
    /\ tables = <<>>
    /\ fk_log = <<>>
    /\ errors = <<>>
    /\ last_set = [p \in OvPairs |-> None]
    /\ deleted_key = None
    /\ dictionary = <<>>
    /\ attribute = None
    /\ returned = None
    /\ args = NoArgs
    /\ restored = None

NextO == transform

SpecO == InitO /\ [][NextO]_vars


(***************************************************************************)
(* Dictionary: the data dictionary, attributes keyed by their name         *)
(***************************************************************************)
\* The Attribute objects and the names the Dictionary is called with
DictionaryAttributes ==
    { Attribute(name, data_type, None, FALSE) :
        name \in {nom, num}, data_type \in {"INT", "DATE"} }

DictionaryNames == {nom, num, rang}

\* The variables no Dictionary method touches
NotDictionary ==
    <<project, links_to_remove, tables, fk_log, errors, last_set, deleted_key, attribute,
      restored>>

Dictionary_add_attribute(attr) ==
    /\ IF DictHas(dictionary, attr.name)
       THEN /\ returned' = Some(FALSE)
            /\ UNCHANGED dictionary
       ELSE /\ dictionary' = DictSet(dictionary, attr.name, attr)
            /\ returned' = Some(TRUE)
    /\ args' = Args(None, Some(attr))
    /\ lastOp' = "Dictionary.add_attribute"
    /\ UNCHANGED NotDictionary

\* Faulty variant of Dictionary_update_attribute: the check for a name conflict is
\* missing
Dictionary_update_attribute_unchecked(old_name, attr) ==
    /\ IF ~DictHas(dictionary, old_name)
       THEN /\ returned' = Some(FALSE)
            /\ UNCHANGED dictionary
       ELSE /\ dictionary' = DictSet(DictDel(dictionary, old_name), attr.name, attr)
            /\ returned' = Some(TRUE)
    /\ args' = Args(Some(old_name), Some(attr))
    /\ lastOp' = "Dictionary.update_attribute"
    /\ UNCHANGED NotDictionary

Dictionary_update_attribute(old_name, attr) ==
    /\ IF ~DictHas(dictionary, old_name)
       THEN /\ returned' = Some(FALSE)
            /\ UNCHANGED dictionary
       ELSE IF old_name # attr.name /\ DictHas(dictionary, attr.name)
            THEN /\ returned' = Some(FALSE)
                 /\ UNCHANGED dictionary
            ELSE /\ dictionary' = DictSet(DictDel(dictionary, old_name), attr.name, attr)
                 /\ returned' = Some(TRUE)
    /\ args' = Args(Some(old_name), Some(attr))
    /\ lastOp' = "Dictionary.update_attribute"
    /\ UNCHANGED NotDictionary

Dictionary_remove_attribute(name) ==
    /\ IF ~DictHas(dictionary, name)
       THEN /\ returned' = Some(FALSE)
            /\ UNCHANGED dictionary
       ELSE /\ dictionary' = DictDel(dictionary, name)
            /\ returned' = Some(TRUE)
    /\ args' = Args(Some(name), None)
    /\ lastOp' = "Dictionary.remove_attribute"
    /\ UNCHANGED NotDictionary

NextDict ==
    \/ \E attr \in DictionaryAttributes : Dictionary_add_attribute(attr)
    \/ \E old_name \in DictionaryNames, attr \in DictionaryAttributes :
          Dictionary_update_attribute(old_name, attr)
    \/ \E name \in DictionaryNames : Dictionary_remove_attribute(name)

SpecDict == Init /\ [][NextDict]_vars


(***************************************************************************)
(* Entity.add_attribute / remove_attribute and the same methods of         *)
(* Association, called on the objects a project holds                      *)
(***************************************************************************)
\* Largest number of attributes an entity or association is given
MaxAttributes == 3

\* The Attribute objects and the names the methods are called with
OwnedAttributes ==
    { Attribute(nom, "INT", None, TRUE),
      Attribute(nom, "DATE", None, FALSE),
      Attribute(num, "INT", None, FALSE) }

OwnedNames == {nom, num}

\* The variables no method of Entity or Association touches
NotOwner ==
    <<links, mld_column_overrides, modified, links_to_remove, tables, fk_log,
      errors, last_set, deleted_key, objects>>

Entity_add_attribute(entity_id, attr) ==
    /\ DictHas(entities, entity_id)
    /\ Len(DictGet(entities, entity_id)[1].attributes) < MaxAttributes
    /\ entities' = [entities EXCEPT ![DictIndex(entities, entity_id)].v.attributes =
                      Append(@, attr)]
    /\ lastOp' = "Entity.add_attribute"
    /\ UNCHANGED <<associations, NotOwner>>

Entity_remove_attribute(entity_id, attr_name) ==
    /\ DictHas(entities, entity_id)
    /\ entities' = [entities EXCEPT ![DictIndex(entities, entity_id)].v.attributes =
                      SelectSeq(@, LAMBDA a : a.name # attr_name)]
    /\ lastOp' = "Entity.remove_attribute"
    /\ UNCHANGED <<associations, NotOwner>>

Association_add_attribute(association_id, attr) ==
    /\ DictHas(associations, association_id)
    /\ Len(DictGet(associations, association_id)[1].attributes) < MaxAttributes
    /\ associations' =
          [associations EXCEPT ![DictIndex(associations, association_id)].v.attributes =
              Append(@, attr)]
    /\ lastOp' = "Association.add_attribute"
    /\ UNCHANGED <<entities, NotOwner>>

Association_remove_attribute(association_id, attr_name) ==
    /\ DictHas(associations, association_id)
    /\ associations' =
          [associations EXCEPT ![DictIndex(associations, association_id)].v.attributes =
              SelectSeq(@, LAMBDA a : a.name # attr_name)]
    /\ lastOp' = "Association.remove_attribute"
    /\ UNCHANGED <<entities, NotOwner>>

\* A project that holds a new entity and a new association
InitA ==
    /\ entities = DictOf(<<Entity("e1", Client, <<>>)>>)
    /\ associations = DictOf(<<Association("a1", Passer, <<>>)>>)
    /\ links = <<>>
    /\ mld_column_overrides = <<>>
    /\ modified = TRUE
    /\ lastOp = "init"
    /\ links_to_remove = <<>>
    /\ tables = <<>>
    /\ fk_log = <<>>
    /\ errors = <<>>
    /\ last_set = [p \in OvPairs |-> None]
    /\ deleted_key = None
    /\ dictionary = <<>>
    /\ attribute = None
    /\ returned = None
    /\ args = NoArgs
    /\ restored = None

NextA ==
    \/ \E attr \in OwnedAttributes : Entity_add_attribute("e1", attr)
    \/ \E attr_name \in OwnedNames : Entity_remove_attribute("e1", attr_name)
    \/ \E attr \in OwnedAttributes : Association_add_attribute("a1", attr)
    \/ \E attr_name \in OwnedNames : Association_remove_attribute("a1", attr_name)

SpecA == InitA /\ [][NextA]_vars


(***************************************************************************)
(* Serialization.  A JSON object is the record of its keys, a JSON list a  *)
(* sequence, null is None; a string met where an object is expected is     *)
(* [str |-> s].  The metadata and the colors, which no derivation reads,   *)
(* are left out of the dict.                                               *)
(***************************************************************************)
\* data.get(key, default)
JsonGet(data, key, default) == IF key \in DOMAIN data THEN data[key] ELSE default

\* isinstance(attr_data, dict)
isinstance_dict(attr_data) == "str" \notin DOMAIN attr_data

Attribute_to_dict(attr) ==
    [name |-> attr.name, type |-> attr.data_type, size |-> attr.size,
     pk |-> attr.is_primary_key]

Attribute_from_dict(data) ==
    Attribute(data.name, data.type, JsonGet(data, "size", None), JsonGet(data, "pk", FALSE))

Entity_to_dict(entity) ==
    [id |-> entity.id, name |-> entity.name,
     attributes |-> [i \in 1..Len(entity.attributes) |->
                       Attribute_to_dict(entity.attributes[i])],
     x |-> entity.x, y |-> entity.y]

\* Faulty variant of Entity_from_dict: a bare name becomes a VARCHAR attribute
Entity_from_dict_guessing(data) ==
    LET listed == JsonGet(data, "attributes", <<>>)
    IN  [id |-> data.id, name |-> data.name,
         attributes |-> [i \in 1..Len(listed) |->
                           IF isinstance_dict(listed[i])
                           THEN Attribute_from_dict(listed[i])
                           ELSE Attribute(listed[i].str, "VARCHAR", None, FALSE)],
         x |-> JsonGet(data, "x", 0), y |-> JsonGet(data, "y", 0)]


\* An entry of the list that is not a dict (legacy format) is skipped
Entity_from_dict(data) ==
    LET listed == JsonGet(data, "attributes", <<>>)
        dicts == SelectSeq(listed, isinstance_dict)
    IN  [id |-> data.id, name |-> data.name,
         attributes |-> [i \in 1..Len(dicts) |-> Attribute_from_dict(dicts[i])],
         x |-> JsonGet(data, "x", 0), y |-> JsonGet(data, "y", 0)]

Association_to_dict(association) ==
    [id |-> association.id, name |-> association.name,
     attributes |-> [i \in 1..Len(association.attributes) |->
                       Attribute_to_dict(association.attributes[i])],
     x |-> association.x, y |-> association.y]

Association_from_dict(data) ==
    LET listed == JsonGet(data, "attributes", <<>>)
        dicts == SelectSeq(listed, isinstance_dict)
    IN  [id |-> data.id, name |-> data.name,
         attributes |-> [i \in 1..Len(dicts) |-> Attribute_from_dict(dicts[i])],
         x |-> JsonGet(data, "x", 0), y |-> JsonGet(data, "y", 0)]

Link_to_dict(link) ==
    [id |-> link.id, entity_id |-> link.entity_id,
     association_id |-> link.association_id,
     card_min |-> link.cardinality_min, card_max |-> link.cardinality_max]

\* Faulty variant of Link_from_dict: reads the cardinalities under the field names
Link_from_dict_field_names(data) ==
    Link(data.id, data.entity_id, data.association_id,
         JsonGet(data, "cardinality_min", "0"), JsonGet(data, "cardinality_max", "N"))

Link_from_dict(data) ==
    Link(data.id, data.entity_id, data.association_id,
         JsonGet(data, "card_min", "0"), JsonGet(data, "card_max", "N"))

Project_to_dict(es, as, ls, overrides) ==
    [version |-> "2.1",
     mcd |-> [entities |-> [i \in 1..Len(es) |-> Entity_to_dict(es[i].v)],
              associations |-> [i \in 1..Len(as) |-> Association_to_dict(as[i].v)],
              links |-> [i \in 1..Len(ls) |-> Link_to_dict(ls[i].v)]],
     mld |-> [column_overrides |-> overrides]]

\* for x in objs: d[x.id] = x
RECURSIVE DictSetAll(_, _)
DictSetAll(d, objs) ==
    IF objs = <<>> THEN d
    ELSE DictSetAll(DictSet(d, Head(objs).id, Head(objs)), Tail(objs))

\* The fields of the Project that from_dict returns
Project_from_dict(data) ==
    LET mcd == JsonGet(data, "mcd", <<>>)
        mld == JsonGet(data, "mld", <<>>)
        entity_data == JsonGet(mcd, "entities", <<>>)
        assoc_data == JsonGet(mcd, "associations", <<>>)
        link_data == JsonGet(mcd, "links", <<>>)
    IN  [entities |->
            DictSetAll(<<>>, [i \in 1..Len(entity_data) |-> Entity_from_dict(entity_data[i])]),
         associations |->
            DictSetAll(<<>>, [i \in 1..Len(assoc_data) |->
                                Association_from_dict(assoc_data[i])]),
         links |->
            DictSetAll(<<>>, [i \in 1..Len(link_data) |-> Link_from_dict(link_data[i])]),
         mld_column_overrides |-> JsonGet(mld, "column_overrides", <<>>),
         modified |-> FALSE]

\* The variables to_dict and from_dict leave alone
NotSerialized ==
    <<project, links_to_remove, tables, fk_log, errors, last_set, deleted_key,
      dictionary, attribute, args, restored>>

\* data = project.to_dict()
to_dict ==
    /\ returned' = Some(Project_to_dict(entities, associations, links, mld_column_overrides))
    /\ lastOp' = "to_dict"
    /\ UNCHANGED NotSerialized

\* restored = Project.from_dict(data)
from_dict ==
    /\ lastOp = "to_dict"
    /\ returned' = Some(Project_from_dict(returned[1]))
    /\ lastOp' = "from_dict"
    /\ UNCHANGED NotSerialized

\* The override stores of the projects that are serialized
SOverrideDicts ==
    { <<>>,
      <<[k |-> override_key(str_upper(Client), nom), v |-> <<"X">>]>>,
      <<[k |-> override_key(str_upper(Client), nom), v |-> <<"X">>],
        [k |-> override_key(str_upper(Client), id_client), v |-> <<"Y">>]>>,
      <<[k |-> override_key(str_upper(Client), id_client), v |-> <<"Y">>],
        [k |-> override_key(str_upper(Client), nom), v |-> <<"X">>]>> }

InitS ==
    /\ entities \in OEntityDicts
    /\ associations \in OAssociationDicts
    /\ links \in OLinkDicts
    /\ mld_column_overrides \in SOverrideDicts
    /\ modified = TRUE
    /\ lastOp = "init"
    /\ links_to_remove = <<>>
    /\ tables = <<>>
    /\ fk_log = <<>>
    /\ errors = <<>>
    /\ last_set = [p \in OvPairs |-> None]
    /\ deleted_key = None
    /\ dictionary = <<>>
    /\ attribute = None
    /\ returned = None
    /\ args = NoArgs
    /\ restored = None

NextS ==
    \/ to_dict
    \/ from_dict

SpecS == InitS /\ [][NextS]_vars


(***************************************************************************)
(* Loading a saved project: project = Project.from_dict(data), where data  *)
(* is the dict read from a file, possibly of the legacy format in which an *)
(* attribute is a bare name.                                               *)
(***************************************************************************)
\* Largest number of entries of a saved attribute list
MaxListed == 3

\* The saved attribute lists of the entity, of up to MaxListed entries:
\* structured attributes and bare names
ListedAttributes ==
    LET ListedEntries ==
            { Attribute_to_dict(Attribute(id_client, "INT", None, TRUE)),
              Attribute_to_dict(Attribute(nom, "VARCHAR", Some(100), FALSE)),
              [str |-> nom],
              [str |-> rang] }
    IN  UNION { [1..n -> ListedEntries] : n \in 0..MaxListed }

\* The saved attribute lists of the association: structured, bare or mixed
ListedCarried ==
    { <<>>,
      << Attribute_to_dict(Attribute(quantite, "INT", None, FALSE)) >>,
      << [str |-> quantite] >>,
      << [str |-> nom], Attribute_to_dict(Attribute(quantite, "INT", None, TRUE)) >> }

\* The saved projects: the entity Client and the association Concerner
SavedProjects ==
    { [version |-> "2.1",
       mcd |-> [entities |-> << [id |-> "e1", name |-> Client, attributes |-> listed,
                                 x |-> 0, y |-> 0] >>,
                associations |-> << [id |-> "a1", name |-> Concerner,
                                     attributes |-> carried, x |-> 0, y |-> 0] >>,
                links |-> << Link_to_dict(Link("l1", "e1", "a1", "0", "N")) >>],
       mld |-> [column_overrides |-> <<>>]] :
        listed \in ListedAttributes, carried \in ListedCarried }

\* project = Project.from_dict(data), data being the dict held in returned
load ==
    /\ lastOp \in {"init", "to_dict"}
    /\ returned # None
    /\ LET loaded == Project_from_dict(returned[1])
       IN  /\ entities' = loaded.entities
           /\ associations' = loaded.associations
           /\ links' = loaded.links
           /\ mld_column_overrides' = loaded.mld_column_overrides
           /\ modified' = loaded.modified
    /\ lastOp' = "load"
    /\ UNCHANGED <<links_to_remove, tables, fk_log, errors, last_set, deleted_key, objects>>

InitL ==
    /\ entities = <<>>
    /\ associations = <<>>
    /\ links = <<>>
    /\ mld_column_overrides = <<>>
    /\ modified = FALSE
    /\ lastOp = "init"
    /\ links_to_remove = <<>>
    /\ tables = <<>>
    /\ fk_log = <<>>
    /\ errors = <<>>
    /\ last_set = [p \in OvPairs |-> None]
    /\ deleted_key = None
    /\ dictionary = <<>>
    /\ attribute = None
    /\ returned \in {Some(data) : data \in SavedProjects}
    /\ args = NoArgs
    /\ restored = None

NextL ==
    \/ load
    \/ to_dict

SpecL == InitL /\ [][NextL]_vars


(***************************************************************************)
(* Derivation on projects whose names are not identifiers, whose           *)
(* association may be linked twice to one entity, and in which two         *)
(* associations may connect the same two entities                          *)
(***************************************************************************)
Id_Client == <<"I", "d", " ", "C", "l", "i", "e", "n", "t">>

\* e1 alone, or e1 and e2.  e1 is Client, with names that are identifiers
\* or not (Nom sanitizes to nom); e2 has a single key, a composite key, or
\* the name client, which is the sanitized name of e1.
NEntityDicts ==
    LET Nom == <<"N", "o", "m">>
        client == <<"c", "l", "i", "e", "n", "t">>
        NFirstEntities ==
            { Entity("e1", Client, <<Attribute(id_client, "INT", None, TRUE),
                                     Attribute(nom, "VARCHAR", Some(100), FALSE)>>),
              Entity("e1", Client, <<Attribute(Id_Client, "INT", None, TRUE),
                                     Attribute(nom, "VARCHAR", Some(100), FALSE),
                                     Attribute(Nom, "VARCHAR", Some(100), FALSE)>>) }
        NSecondEntities ==
            { Entity("e2", Commande, <<Attribute(id_commande, "INT", None, TRUE)>>),
              Entity("e2", Ligne, <<Attribute(num, "INT", None, TRUE),
                                    Attribute(rang, "INT", None, TRUE)>>),
              Entity("e2", client, <<Attribute(num, "INT", None, TRUE)>>) }
    IN  { DictOf(<<e>>) : e \in NFirstEntities }
        \cup { DictOf(<<e, f>>) : e \in NFirstEntities, f \in NSecondEntities }

\* a1 without or with a carrying attribute (flagged primary key), alone or with a2
NAssociationDicts ==
    UNION { { DictOf(<<a>>), DictOf(<<a, Association("a2", Passer, <<>>)>>) } :
              a \in { Association("a1", Passer, <<>>),
                      Association("a1", Concerner,
                                  <<Attribute(quantite, "INT", None, TRUE)>>) } }

\* Two links on a1, each on either entity and of any cardinality, then no
\* link on a2, or e1 (maximum "1", either minimum) and e2 (maximum "N")
NLinkDicts ==
    LET NLinksOfA1 ==
            { << Link("l1", e, "a1", c[1], c[2]), Link("l2", f, "a1", d[1], d[2]) >> :
                e \in EntityIds, f \in EntityIds,
                c \in TCardinalities, d \in TCardinalities }
        NLinksOfA2 ==
            { <<>>,
              << Link("l3", "e1", "a2", "0", "1"), Link("l4", "e2", "a2", "0", "N") >>,
              << Link("l3", "e1", "a2", "1", "1"), Link("l4", "e2", "a2", "0", "N") >> }
    IN  { DictOf(x \o y) : x \in NLinksOfA1, y \in NLinksOfA2 }

InitN ==
    /\ entities \in NEntityDicts
    /\ associations \in NAssociationDicts
    /\ links \in NLinkDicts
    /\ mld_column_overrides = <<>>
    /\ modified = TRUE
    /\ lastOp = "init"
    /\ links_to_remove = <<>>
    /\ tables = <<>>
    /\ fk_log = <<>>
    /\ errors = <<>>
    /\ last_set = [p \in OvPairs |-> None]
    /\ deleted_key = None
    /\ dictionary = <<>>
    /\ attribute = None
    /\ returned = None
    /\ args = NoArgs
    /\ restored = None

NextN == transform

SpecN == InitN /\ [][NextN]_vars


(***************************************************************************)
(* A project and the project restored from its dict:                       *)
(* q = Project.from_dict(p.to_dict())                                      *)
(***************************************************************************)
\* The values of the dict to_dict returns that are objects the project
\* holds, handed out without a copy: "column_overrides":
\* self._mld_column_overrides.  The entity, association and link dicts are
\* built anew by their to_dict.
to_dict_by_reference == {"column_overrides"}

\* The values of data that from_dict binds to the new project without a
\* copy: project._mld_column_overrides = mld.get("column_overrides", {}).
\* The entities, associations and links are built anew by their from_dict.
from_dict_by_reference == {"column_overrides"}

\* q = Project.from_dict(p.to_dict()).  shares_overrides: q._mld_column_overrides
\* is the object p._mld_column_overrides; q.mld_column_overrides is the dict
\* of q when it is an object of its own.
restore ==
    /\ LET q == Project_from_dict(Project_to_dict(entities, associations, links,
                                                  mld_column_overrides))
           shared == "column_overrides" \in (to_dict_by_reference \cap from_dict_by_reference)
       IN  restored' = Some([entities |-> q.entities,
                             associations |-> q.associations,
                             links |-> q.links,
                             shares_overrides |-> shared,
                             mld_column_overrides |->
                                 IF shared THEN <<>> ELSE q.mld_column_overrides,
                             modified |-> q.modified])
    /\ lastOp' = "from_dict"
    /\ UNCHANGED <<project, links_to_remove, tables, fk_log, errors, last_set,
                   deleted_key, dictionary, attribute, returned, args>>

\* q._mld_column_overrides, read through the object it is bound to
restored_overrides ==
    IF restored[1].shares_overrides THEN mld_column_overrides
    ELSE restored[1].mld_column_overrides

\* q.set_mld_column_name(table_name, original_name, new_name)
restored_set_mld_column_name(table_name, original_name, new_name) ==
    /\ restored # None
    /\ LET key == override_key(table_name, original_name)
           after == IF new_name # <<>> /\ new_name # original_name
                    THEN DictSet(restored_overrides, key, new_name)
                    ELSE IF DictHas(restored_overrides, key)
                         THEN DictDel(restored_overrides, key)
                         ELSE restored_overrides
       IN  IF restored[1].shares_overrides
           THEN /\ mld_column_overrides' = after
                /\ restored' = Some([restored[1] EXCEPT !.modified = TRUE])
           ELSE /\ UNCHANGED mld_column_overrides
                /\ restored' = Some([restored[1] EXCEPT !.mld_column_overrides = after,
                                                        !.modified = TRUE])
    /\ lastOp' = "q.set_mld_column_name"
    /\ UNCHANGED <<entities, associations, links, modified, links_to_remove, tables,
                   fk_log, errors, last_set, deleted_key, dictionary, attribute,
                   returned, args>>

\* The new names the two projects are called with, for the columns of table T
RNewNames == { <<>>, <<"X">> }

NextR ==
    \/ restore
    \/ \E original_name \in OvColumns, new_name \in RNewNames :
          set_mld_column_name(<<"T">>, original_name, new_name)
    \/ \E original_name \in OvColumns, new_name \in RNewNames :
          restored_set_mld_column_name(<<"T">>, original_name, new_name)

SpecR == Init /\ [][NextR]_vars


(***************************************************************************)
(* The modified flag of a project built by Project.from_dict or emptied by *)
(* clear, under the mutation calls                                         *)
(***************************************************************************)
\* clear(): the four dicts are emptied, modified = False, None is returned
clear ==
    /\ entities' = <<>>
    /\ associations' = <<>>
    /\ links' = <<>>
    /\ mld_column_overrides' = <<>>
    /\ modified' = FALSE
    /\ links_to_remove' = <<>>
    /\ lastOp' = "clear"
    /\ tables' = <<>>
    /\ fk_log' = <<>>
    /\ errors' = <<>>
    /\ returned' = None
    /\ UNCHANGED <<last_set, deleted_key, dictionary, attribute, args, restored>>

\* The dicts the project is built from: an empty project, and a project
\* with an entity, an association, a link and an override
MSavedProjects ==
    { Project_to_dict(<<>>, <<>>, <<>>, <<>>),
      Project_to_dict(DictOf(<<Entity("e1", Client,
                                      <<Attribute(id_client, "INT", None, TRUE)>>)>>),
                      DictOf(<<Association("a1", Passer, <<>>)>>),
                      DictOf(<<Link("l1", "e1", "a1", "0", "N")>>),
                      <<[k |-> override_key(<<"T">>, <<"B">>), v |-> <<"X">>]>>) }

\* project = Project.from_dict(data), data being the dict held in returned
InitM ==
    /\ returned \in {Some(data) : data \in MSavedProjects}
    /\ entities = Project_from_dict(returned[1]).entities
    /\ associations = Project_from_dict(returned[1]).associations
    /\ links = Project_from_dict(returned[1]).links
    /\ mld_column_overrides = Project_from_dict(returned[1]).mld_column_overrides
    /\ modified = Project_from_dict(returned[1]).modified
    /\ lastOp = "from_dict"
    /\ links_to_remove = <<>>
    /\ tables = <<>>
    /\ fk_log = <<>>
    /\ errors = <<>>
    /\ last_set = [p \in OvPairs |-> None]
    /\ deleted_key = None
    /\ dictionary = <<>>
    /\ attribute = None
    /\ args = NoArgs
    /\ restored = None

NextM ==
    \/ \E entity \in { Entity("e1", Client, <<Attribute(id_client, "INT", None, TRUE)>>),
                      Entity("e2", Commande,
                             <<Attribute(id_commande, "INT", None, TRUE)>>) } :
          add_entity(entity)
    \/ \E entity_id \in EntityIds : remove_entity(entity_id)
    \/ add_association(Association("a1", Passer, <<>>))
    \/ \E association_id \in AssociationIds : remove_association(association_id)
    \/ \E link \in { Link("l1", "e1", "a1", "0", "N"), Link("l1", "e2", "a1", "1", "1") } :
          add_link(link)
    \/ \E link_id \in LinkIds : remove_link(link_id)
    \/ \E new_name \in RNewNames : set_mld_column_name(<<"T">>, <<"B">>, new_name)
    \/ clear

SpecM == InitM /\ [][NextM]_vars


(* Claims                                                                  *)
(***************************************************************************)
DictEntries(d) == {d[i] : i \in 1..Len(d)}

\* C1: every stored link's entity_id is the id of a stored entity and its
\* association_id is the id of a stored association, in every state reached
\* by add_entity, add_association, add_link, remove_entity,
\* remove_association and remove_link.
C1_ReferentialIntegrity ==
    \A i \in 1..Len(links) :
        /\ DictHas(entities, links[i].v.entity_id)
        /\ DictHas(associations, links[i].v.association_id)

\* C2: removing a stored entity e deletes exactly the links whose entity_id
\* is e, removing a stored association a deletes exactly the links whose
\* association_id is a; no such link remains, and every other link, every
\* other entity and every other association is still present and unchanged.
C2_CascadeExact ==
    [][ /\ \A e \in EntityIds :
              (remove_entity(e) /\ DictHas(entities, e)) =>
                  /\ \A entry \in DictEntries(links') : entry.v.entity_id # e
                  /\ DictEntries(links) \ DictEntries(links')
                        = {entry \in DictEntries(links) : entry.v.entity_id = e}
                  /\ DictEntries(links') \subseteq DictEntries(links)
                  /\ DictEntries(entities')
                        = {entry \in DictEntries(entities) : entry.k # e}
                  /\ DictEntries(associations') = DictEntries(associations)
        /\ \A a \in AssociationIds :
              (remove_association(a) /\ DictHas(associations, a)) =>
                  /\ \A entry \in DictEntries(links') : entry.v.association_id # a
                  /\ DictEntries(links) \ DictEntries(links')
                        = {entry \in DictEntries(links) : entry.v.association_id = a}
                  /\ DictEntries(links') \subseteq DictEntries(links)
                  /\ DictEntries(associations')
                        = {entry \in DictEntries(associations) : entry.k # a}
                  /\ DictEntries(entities') = DictEntries(entities)
      ]_vars

\* C2 witness: remove_entity has just deleted a link of the removed entity
\* and kept a link of another entity.
C2_Witness ==
    /\ lastOp = "remove_entity"
    /\ links_to_remove # <<>>
    /\ links # <<>>
    /\ entities # <<>>

\* C4: validate and transform leave the entities (with their attribute
\* lists), the associations (with their carrying attributes), the links and
\* the modified flag as they were before the call.
C4_SideEffectFree ==
    [][ lastOp' \in {"transform", "validate"} =>
            /\ entities' = entities
            /\ associations' = associations
            /\ links' = links
            /\ modified' = modified ]_vars

\* C4 witness: transform has run and has appended a foreign key to a table.
C4_Witness ==
    /\ lastOp = "transform"
    /\ fk_log # <<>>

\* Indexes of the stored links of association a, of those with maximum "N",
\* of the tables emitted for a, and of the foreign keys step 3 added for a.
LinksOf(a) == {i \in 1..Len(links) : links[i].v.association_id = a}

NLinksOf(a) == {i \in LinksOf(a) : links[i].v.cardinality_max = "N"}

JunctionTablesOf(a) ==
    {t \in 1..Len(tables) :
        tables[t].source_type = "association" /\ tables[t].source_id = Some(a)}

FkAddedFor(a) == {k \in 1..Len(fk_log) : fk_log[k].association_id = a}

ColumnsOf(t) == {tables[t].columns[c] : c \in 1..Len(tables[t].columns)}

EntityTablesOf(e) ==
    {t \in 1..Len(tables) :
        tables[t].source_type = "entity" /\ tables[t].source_id = Some(e)}

\* The (table, column) pairs of the primary keys of the stored entities
\* linked to association a, read from the entity tables of the output.
ConnectedPrimaryKeys(a) ==
    UNION { { <<Some(tables[t].name), Some(col.name)>> :
                col \in {c \in ColumnsOf(t) : c.is_primary_key} } :
            t \in UNION {EntityTablesOf(links[i].v.entity_id) : i \in LinksOf(a)} }

\* C5: for every association with at least 2 links of maximum "N", transform
\* emits a junction table whose primary-key columns are exactly the primary
\* keys of the connected entities, and adds no foreign-key column to an
\* entity table for that association.
C5_JunctionAndNoForeignKey ==
    lastOp = "transform" =>
        \A x \in 1..Len(associations) :
            LET a == associations[x].k
            IN  Cardinality(NLinksOf(a)) >= 2 =>
                    /\ \E t \in JunctionTablesOf(a) :
                          { <<c.references_table, c.references_column>> :
                              c \in {c \in ColumnsOf(t) : c.is_primary_key} }
                            = ConnectedPrimaryKeys(a)
                    /\ FkAddedFor(a) = {}

\* An association with exactly two links, i of maximum "1" and j of maximum
\* "N", and no carrying attributes.
IsOneToMany(x, i, j) ==
    /\ LinksOf(associations[x].k) = {i, j}
    /\ i # j
    /\ links[i].v.cardinality_max = "1"
    /\ links[j].v.cardinality_max = "N"
    /\ associations[x].v.attributes = <<>>

FkAddedOn(a, e) == {k \in FkAddedFor(a) : fk_log[k].entity_id = e}

\* C6 as claimed: for every association with exactly two links, one of
\* maximum "1" and one of maximum "N", and no carrying attributes, transform
\* emits no junction table, adds exactly one foreign-key column to the table
\* of the "1"-side entity and none to the "N"-side table; the column is
\* nullable iff the "1"-side link's minimum is "0".
C6_ExactlyOneForeignKey ==
    lastOp = "transform" =>
        \A x \in 1..Len(associations) : \A i, j \in 1..Len(links) :
            IsOneToMany(x, i, j) =>
                LET a == associations[x].k
                IN  /\ JunctionTablesOf(a) = {}
                    /\ Cardinality(FkAddedOn(a, links[i].v.entity_id)) = 1
                    /\ FkAddedOn(a, links[j].v.entity_id) = {}
                    /\ \A k \in FkAddedFor(a) :
                          fk_log[k].column.is_nullable
                            <=> (links[i].v.cardinality_min = "0")

\* C6 as amended: for every association with exactly two links on two
\* different entities, one of maximum "1" and one of maximum "N", and no
\* carrying attributes, transform emits no junction table and adds no column
\* to the "N"-side table; to the "1"-side table it adds one foreign-key
\* column per primary-key attribute of the stored "N"-side entity, except
\* that a column name the table already holds is not added again; each
\* added column is foreign-key, not primary-key, and nullable iff the
\* "1"-side link's minimum is "0".
C6_ForeignKeyPerPrimaryKey ==
    lastOp = "transform" =>
        \A x \in 1..Len(associations) : \A i, j \in 1..Len(links) :
            (IsOneToMany(x, i, j) /\ links[i].v.entity_id # links[j].v.entity_id) =>
                LET a == associations[x].k
                    e == links[i].v.entity_id
                    f == links[j].v.entity_id
                    FkNames == IF DictHas(entities, e) /\ DictHas(entities, f)
                               THEN LET fv == DictGet(entities, f)[1]
                                    IN  {fk_name(fv, fv.attributes[n]) :
                                           n \in {n \in 1..Len(fv.attributes) :
                                                    fv.attributes[n].is_primary_key}}
                               ELSE {}
                    OwnNames == IF DictHas(entities, e)
                                THEN LET ev == DictGet(entities, e)[1]
                                     IN  {_safe_name(ev.attributes[n].name) :
                                            n \in 1..Len(ev.attributes)}
                                ELSE {}
                    OtherNames == {fk_log[k].column.name :
                                     k \in {k \in 1..Len(fk_log) :
                                              /\ fk_log[k].entity_id = e
                                              /\ fk_log[k].association_id # a}}
                IN  /\ JunctionTablesOf(a) = {}
                    /\ FkAddedOn(a, f) = {}
                    /\ \A k \in FkAddedFor(a) :
                          /\ fk_log[k].entity_id = e
                          /\ fk_log[k].column.name \in FkNames
                          /\ fk_log[k].column.is_foreign_key
                          /\ ~fk_log[k].column.is_primary_key
                          /\ fk_log[k].column.is_nullable
                               <=> (links[i].v.cardinality_min = "0")
                          /\ \E t \in EntityTablesOf(e) : fk_log[k].column \in ColumnsOf(t)
                    /\ \A k1, k2 \in FkAddedFor(a) :
                          fk_log[k1].column.name = fk_log[k2].column.name => k1 = k2
                    /\ \A name \in FkNames :
                          (\E k \in FkAddedFor(a) : fk_log[k].column.name = name)
                            <=> name \notin (OwnNames \cup OtherNames)

\* C6 witness: transform has run on a project with a one-to-many association
\* between two stored entities and has added a foreign key for it.
C6_Witness ==
    /\ lastOp = "transform"
    /\ \E x \in 1..Len(associations) : \E i, j \in 1..Len(links) :
          /\ IsOneToMany(x, i, j)
          /\ links[i].v.entity_id # links[j].v.entity_id
          /\ FkAddedFor(associations[x].k) # {}

\* C7: transform emits a table of source_type "association" for an
\* association iff it has at least 2 links and (at least 2 links of maximum
\* "N" or at least one carrying attribute).
C7_JunctionDecision ==
    lastOp = "transform" =>
        \A x \in 1..Len(associations) :
            LET a == associations[x].k
            IN  (JunctionTablesOf(a) # {})
                  <=> /\ Cardinality(LinksOf(a)) >= 2
                      /\ \/ Cardinality(NLinksOf(a)) >= 2
                         \/ Len(associations[x].v.attributes) >= 1

\* C7 witness: transform has run; one association with carrying attributes
\* and 2 links got a table, another with a single link got none.
C7_Witness ==
    /\ lastOp = "transform"
    /\ \E x, y \in 1..Len(associations) :
          /\ JunctionTablesOf(associations[x].k) # {}
          /\ Cardinality(NLinksOf(associations[x].k)) < 2
          /\ Cardinality(LinksOf(associations[y].k)) = 1
          /\ JunctionTablesOf(associations[y].k) = {}

\* C8: whenever transform emits a junction table for an association, it
\* adds no foreign-key column to any entity table for that association.
C8_JunctionExcludesForeignKey ==
    lastOp = "transform" =>
        \A x \in 1..Len(associations) :
            JunctionTablesOf(associations[x].k) # {}
                => FkAddedFor(associations[x].k) = {}

\* C9: an association with exactly two links, both of maximum "1", and no
\* carrying attributes gets no table and no foreign-key column.
C9_OneToOneProducesNothing ==
    lastOp = "transform" =>
        \A x \in 1..Len(associations) : \A i, j \in 1..Len(links) :
            LET a == associations[x].k
            IN  ( /\ LinksOf(a) = {i, j}
                  /\ i # j
                  /\ links[i].v.cardinality_max = "1"
                  /\ links[j].v.cardinality_max = "1"
                  /\ associations[x].v.attributes = <<>> )
                => /\ JunctionTablesOf(a) = {}
                   /\ FkAddedFor(a) = {}

\* C9 witness: transform has run on a project where two stored entities with
\* primary keys are linked by a one-to-one association.
C9_Witness ==
    /\ lastOp = "transform"
    /\ \E x \in 1..Len(associations) : \E i, j \in 1..Len(links) :
          /\ LinksOf(associations[x].k) = {i, j}
          /\ links[i].v.entity_id # links[j].v.entity_id
          /\ links[i].v.cardinality_max = "1"
          /\ links[j].v.cardinality_max = "1"
          /\ associations[x].v.attributes = <<>>
          /\ \A l \in {i, j} : \E t \in EntityTablesOf(links[l].v.entity_id) :
                \E c \in ColumnsOf(t) : c.is_primary_key

\* C10: after any sequence of set_mld_column_name calls, get_mld_column_name(t, o)
\* is the new_name of the last set on (t, o) when that name was non-empty and
\* different from o, and o in every other case.
C10_LastSetWins ==
    \A t \in OvTables, o \in OvColumns :
        get_mld_column_name(mld_column_overrides, t, o)
          = IF /\ last_set[<<t, o>>] # None
               /\ last_set[<<t, o>>][1] # <<>>
               /\ last_set[<<t, o>>][1] # o
            THEN last_set[<<t, o>>][1]
            ELSE o

\* C11: in any store state, set_mld_column_name(t, o, o) leaves no entry under
\* the key of (t, o), removes nothing else and reorders nothing,
\* get_mld_column_name(t, o) then returns o, and the call leaves a store that
\* has no entry under that key (the store a first such call leaves) unchanged.
C11_ResetIdempotent ==
    [][ \A t \in OvTables, o \in OvColumns :
          set_mld_column_name(t, o, o) =>
              LET key == override_key(t, o)
              IN  /\ ~DictHas(mld_column_overrides', key)
                  /\ mld_column_overrides'
                       = SelectSeq(mld_column_overrides, LAMBDA entry : entry.k # key)
                  /\ get_mld_column_name(mld_column_overrides', t, o) = o
                  /\ ~DictHas(mld_column_overrides, key)
                       => mld_column_overrides' = mld_column_overrides ]_vars

\* C11 witness: the last set on (t, o) had new_name = o and deleted the entry
\* of (t, o); another entry is still stored.
C11_Witness ==
    /\ lastOp = "set_mld_column_name"
    /\ \E t \in OvTables, o \in OvColumns :
          /\ deleted_key = Some(override_key(t, o))
          /\ last_set[<<t, o>>] = Some(o)
    /\ mld_column_overrides # <<>>

\* C12: in every state reached from the empty store by set_mld_column_name
\* calls, no entry is stored under the key of a (table, original column) pair
\* with a replacement equal to that original column name, and no entry has an
\* empty replacement.
C12_NoNoOpStored ==
    /\ \A t \in OvTables, o \in OvColumns :
          DictGet(mld_column_overrides, override_key(t, o)) # Some(o)
    /\ \A i \in 1..Len(mld_column_overrides) : mld_column_overrides[i].v # <<>>

\* The column names of each table, in table and column order
ColumnNamesOf(tbls) ==
    [t \in 1..Len(tbls) |-> [c \in 1..Len(tbls[t].columns) |-> tbls[t].columns[c].name]]

\* C13: transform leaves the override store unchanged; the column names it
\* returns are those it returned before the store was changed; and
\* set_mld_column_name changes no entity, association or link.
C13_OverridesDecoupled ==
    [][ /\ lastOp' = "transform" =>
              /\ mld_column_overrides' = mld_column_overrides
              /\ tables # <<>> => ColumnNamesOf(tables') = ColumnNamesOf(tables)
        /\ lastOp' = "set_mld_column_name" =>
              /\ entities' = entities
              /\ associations' = associations
              /\ links' = links ]_vars

\* C13 witness: transform has run while the store holds an override for a
\* column of a table of its result, and the column has its derived name.
C13_Witness ==
    /\ lastOp = "transform"
    /\ \E t \in 1..Len(tables) : \E c \in 1..Len(tables[t].columns) :
          LET found == DictGet(mld_column_overrides,
                               override_key(str_upper(tables[t].name),
                                            tables[t].columns[c].name))
          IN  found # None /\ found[1] # tables[t].columns[c].name

\* The message of each rule of validate, in rule order
RuleTexts ==
    << "No entities defined. Add at least one entity.",
       "Entity '{}' has no primary key attribute.",
       "Association '{}' must be connected to at least 2 entities.",
       "Entity '{}' is not connected to any association." >>

RuleOf(text) == CHOOSE r \in 1..Len(RuleTexts) : RuleTexts[r] = text

\* The names reported by rule r, in the order of the result
ReportedBy(r) ==
    LET hit == SelectSeq(errors, LAMBDA e : e.text = RuleTexts[r])
    IN  [i \in 1..Len(hit) |-> hit[i].name]

\* The names of the stored entities (associations) that satisfy a condition
\* given as the set of their ids, in insertion order
EntityNamesIn(ids) ==
    LET hit == SelectSeq(entities, LAMBDA entry : entry.k \in ids)
    IN  [i \in 1..Len(hit) |-> hit[i].v.name]

AssociationNamesIn(ids) ==
    LET hit == SelectSeq(associations, LAMBDA entry : entry.k \in ids)
    IN  [i \in 1..Len(hit) |-> hit[i].v.name]

EntitiesWithoutPrimaryKey ==
    {entities[i].k : i \in {i \in 1..Len(entities) :
        \A n \in 1..Len(entities[i].v.attributes) :
            ~entities[i].v.attributes[n].is_primary_key}}

AssociationsWithFewLinks ==
    {associations[i].k : i \in {i \in 1..Len(associations) :
        Cardinality(LinksOf(associations[i].k)) < 2}}

OrphanEntities ==
    {entities[i].k : i \in {i \in 1..Len(entities) :
        \A l \in 1..Len(links) : links[l].v.entity_id # entities[i].k}}

\* C14: the result of validate holds one diagnostic if there is no entity,
\* one per entity without a primary-key attribute, one per association with
\* fewer than 2 links and one per entity that no link references, each rule
\* reporting in insertion order and the rules in that order; it is empty
\* exactly when none of the four conditions holds.
C14_AllRulesReported ==
    lastOp = "validate" =>
        /\ \A i \in 1..Len(errors) : errors[i].text \in {RuleTexts[r] : r \in 1..Len(RuleTexts)}
        /\ \A i, j \in 1..Len(errors) :
              i < j => RuleOf(errors[i].text) <= RuleOf(errors[j].text)
        /\ Len(ReportedBy(1)) = IF entities = <<>> THEN 1 ELSE 0
        /\ ReportedBy(2) = EntityNamesIn(EntitiesWithoutPrimaryKey)
        /\ ReportedBy(3) = AssociationNamesIn(AssociationsWithFewLinks)
        /\ ReportedBy(4) = EntityNamesIn(OrphanEntities)
        /\ (errors = <<>>) <=> /\ entities # <<>>
                               /\ EntitiesWithoutPrimaryKey = {}
                               /\ AssociationsWithFewLinks = {}
                               /\ OrphanEntities = {}

\* C14 witness: validate has reported an entity without primary key, an
\* association with fewer than 2 links and an orphan entity in one result.
C14_Witness ==
    /\ lastOp = "validate"
    /\ ReportedBy(2) # <<>>
    /\ ReportedBy(3) # <<>>
    /\ ReportedBy(4) # <<>>

\* C15: in every state reached through the mutation operations, transform
\* returns its result, one table per stored entity with a column per
\* attribute, whether or not validate reports diagnostics for that state.
C15_DerivationNotBlocked ==
    lastOp = "transform" =>
        \A i \in 1..Len(entities) :
            \E t \in EntityTablesOf(entities[i].k) :
                Len(tables[t].columns) >= Len(entities[i].v.attributes)

\* C15 witness: transform has returned tables for a project for which
\* validate reports diagnostics and in which a link of maximum "1" and a
\* link of maximum "N" of one association reference a stored and an
\* unstored entity.
C15_Witness ==
    /\ lastOp = "transform"
    /\ tables # <<>>
    /\ EntitiesWithoutPrimaryKey \cup AssociationsWithFewLinks \cup OrphanEntities # {}
    /\ \E i, j \in 1..Len(links) :
          /\ links[i].v.cardinality_max = "1"
          /\ links[j].v.cardinality_max = "N"
          /\ links[i].v.association_id = links[j].v.association_id
          /\ DictHas(entities, links[i].v.entity_id)
          /\ ~DictHas(entities, links[j].v.entity_id)

\* The number a string of decimal digits denotes
RECURSIVE DecimalValue(_)
DecimalValue(digits) ==
    IF digits = <<>> THEN 0
    ELSE 10 * DecimalValue(SubSeq(digits, 1, Len(digits) - 1))
         + ((CHOOSE d \in 1..10 : DecimalDigits[d] = digits[Len(digits)]) - 1)

\* C16: get_sql_type returns "<TYPE>(<size>)" when data_type is VARCHAR, CHAR
\* or DECIMAL and size is present, and exactly "<TYPE>" in every other case.
C16_DerivedColumnType ==
    lastOp = "get_sql_type" =>
        LET attr == attribute[1]
            sql == returned[1]
        IN  IF attr.data_type \in {"VARCHAR", "CHAR", "DECIMAL"} /\ attr.size # None
            THEN /\ Len(sql) >= 4
                 /\ sql[1] = attr.data_type
                 /\ sql[2] = "("
                 /\ sql[Len(sql)] = ")"
                 /\ \A i \in 3..(Len(sql) - 1) : \E d \in 1..10 : DecimalDigits[d] = sql[i]
                 /\ Len(sql) > 4 => sql[3] # "0"
                 /\ DecimalValue(SubSeq(sql, 3, Len(sql) - 1)) = attr.size[1]
            ELSE sql = <<attr.data_type>>

\* C16 witness: get_sql_type has returned for an attribute of another data
\* type that has a size.
C16_Witness ==
    /\ lastOp = "get_sql_type"
    /\ attribute[1].data_type = "INT"
    /\ attribute[1].size = Some(11)
    /\ Len(returned[1]) = 1

\* The foreign-key columns the log holds for entity e, in log order
FkColumnsOn(e) ==
    LET hit == SelectSeq(fk_log, LAMBDA c : c.entity_id = e)
    IN  [i \in 1..Len(hit) |-> hit[i].column]

EntriesBeside(d, names) == SelectSeq(d, LAMBDA entry : entry.k \notin names)

\* C18: add_attribute with a name already present, update_attribute with an
\* unknown old name and update_attribute renaming to a name held by another
\* entry return False and leave the entries and their order unchanged; every
\* other add or update returns True, stores the attribute under its name,
\* drops the old name and keeps the other entries in their order.
C18_CollisionsRejected ==
    [][ /\ \A attr \in DictionaryAttributes :
              Dictionary_add_attribute(attr) =>
                  IF DictHas(dictionary, attr.name)
                  THEN returned' = Some(FALSE) /\ dictionary' = dictionary
                  ELSE /\ returned' = Some(TRUE)
                       /\ dictionary' = Append(dictionary, [k |-> attr.name, v |-> attr])
        /\ \A old_name \in DictionaryNames, attr \in DictionaryAttributes :
              Dictionary_update_attribute(old_name, attr) =>
                  IF \/ ~DictHas(dictionary, old_name)
                     \/ old_name # attr.name /\ DictHas(dictionary, attr.name)
                  THEN returned' = Some(FALSE) /\ dictionary' = dictionary
                  ELSE /\ returned' = Some(TRUE)
                       /\ DictGet(dictionary', attr.name) = Some(attr)
                       /\ old_name # attr.name => ~DictHas(dictionary', old_name)
                       /\ EntriesBeside(dictionary', {attr.name})
                            = EntriesBeside(dictionary, {old_name})
                       /\ Len(dictionary') = Len(dictionary)
      ]_vars

\* C18 witness: update_attribute has just refused to rename an entry to the
\* name of another entry.
C18_Witness ==
    /\ lastOp = "Dictionary.update_attribute"
    /\ returned = Some(FALSE)
    /\ DictHas(dictionary, args.old_name[1])
    /\ args.old_name[1] # args.attr[1].name
    /\ DictHas(dictionary, args.attr[1].name)

\* C19: in every state reached by add_attribute and remove_attribute calls
\* on an entity or an association, no two attributes of the same entity or of
\* the same association have the same name.
C19_AttributeNamesUnique ==
    /\ \A x \in 1..Len(entities) :
          \A i, j \in 1..Len(entities[x].v.attributes) :
              entities[x].v.attributes[i].name = entities[x].v.attributes[j].name
                 => i = j
    /\ \A x \in 1..Len(associations) :
          \A i, j \in 1..Len(associations[x].v.attributes) :
              associations[x].v.attributes[i].name = associations[x].v.attributes[j].name
                 => i = j

\* C20: Project.from_dict(p.to_dict()) holds the same entities, associations,
\* links and column overrides as p, in the same iteration order, and its
\* modified flag is False.
C20_RoundTrip ==
    lastOp = "from_dict" =>
        /\ returned[1].entities = entities
        /\ returned[1].associations = associations
        /\ returned[1].links = links
        /\ returned[1].mld_column_overrides = mld_column_overrides
        /\ returned[1].modified = FALSE

\* C20 witness: from_dict has returned for a modified project with two
\* entities inserted as e2, e1, an attribute that has a size, a link of
\* cardinality 1,1 and two overrides.
C20_Witness ==
    /\ lastOp = "from_dict"
    /\ modified
    /\ Len(entities) = 2
    /\ entities[1].k = "e2"
    /\ \E n \in 1..Len(entities[2].v.attributes) : entities[2].v.attributes[n].size # None
    /\ \E l \in 1..Len(links) :
          links[l].v.cardinality_min = "1" /\ links[l].v.cardinality_max = "1"
    /\ Len(mld_column_overrides) = 2

\* The structured entries of a saved attribute list, in their order, as the
\* attributes they describe.  A structured entry has the keys of an
\* attribute; a bare name has none of them.
StructuredOf(listed) ==
    LET kept == SelectSeq(listed, LAMBDA entry : DOMAIN entry = {"name", "type", "size", "pk"})
    IN  [i \in 1..Len(kept) |->
           [name |-> kept[i].name, data_type |-> kept[i].type, size |-> kept[i].size,
            is_primary_key |-> kept[i].pk]]

\* C21: loading an element whose saved attribute list mixes structured
\* attributes and bare names keeps exactly the structured attributes, in
\* their order, and drops the bare names; a to_dict that follows emits only
\* structured attributes, those of the loaded element.
C21_LegacyAttributesDropped ==
    /\ lastOp = "load" =>
          /\ Len(entities) = Len(returned[1].mcd.entities)
          /\ \A i \in 1..Len(entities) :
                entities[i].v.attributes
                  = StructuredOf(returned[1].mcd.entities[i].attributes)
          /\ Len(associations) = Len(returned[1].mcd.associations)
          /\ \A i \in 1..Len(associations) :
                associations[i].v.attributes
                  = StructuredOf(returned[1].mcd.associations[i].attributes)
    /\ lastOp = "to_dict" =>
          /\ \A i \in 1..Len(entities) :
                LET emitted == returned[1].mcd.entities[i].attributes
                IN  /\ \A n \in 1..Len(emitted) :
                          DOMAIN emitted[n] = {"name", "type", "size", "pk"}
                    /\ StructuredOf(emitted) = entities[i].v.attributes
                    /\ Len(emitted) = Len(entities[i].v.attributes)
          /\ \A i \in 1..Len(associations) :
                LET emitted == returned[1].mcd.associations[i].attributes
                IN  /\ \A n \in 1..Len(emitted) :
                          DOMAIN emitted[n] = {"name", "type", "size", "pk"}
                    /\ StructuredOf(emitted) = associations[i].v.attributes
                    /\ Len(emitted) = Len(associations[i].v.attributes)

\* C21 witness: a project has been loaded from a dict in which a bare name
\* stands between two structured attributes of the entity and before the
\* structured attribute of the association.
C21_Witness ==
    /\ lastOp = "load"
    /\ LET listed == returned[1].mcd.entities[1].attributes
           carried == returned[1].mcd.associations[1].attributes
       IN  /\ Len(listed) = 3
           /\ DOMAIN listed[2] = {"str"}
           /\ Len(entities[1].v.attributes) = 2
           /\ Len(carried) = 2
           /\ Len(associations[1].v.attributes) = 1


\* The indices of the primary-key attributes of a stored entity
PrimaryKeysOf(e) ==
    LET ev == DictGet(entities, e)[1]
    IN  {n \in 1..Len(ev.attributes) : ev.attributes[n].is_primary_key}

\* Link i has maximum "1", link j is another link of the same association,
\* has maximum "N" and is on another entity; both entities are stored.
IsPropagation(i, j) ==
    /\ i # j
    /\ links[i].v.association_id = links[j].v.association_id
    /\ links[i].v.cardinality_max = "1"
    /\ links[j].v.cardinality_max = "N"
    /\ links[i].v.entity_id # links[j].v.entity_id
    /\ DictHas(entities, links[i].v.entity_id)
    /\ DictHas(entities, links[j].v.entity_id)

\* C22: for every link L of maximum "1" on entity E and every other link M
\* of the same association of maximum "N" on another entity F, after
\* transform the table of E holds, for each primary-key attribute p of F, a
\* column named fk_<sanitized name of F>_<name of p> that is foreign-key,
\* not primary-key, references the table of F and the column of p, and is
\* nullable iff the minimum of L is "0".
C22_ForeignKeyPropagated ==
    lastOp = "transform" =>
        \A i, j \in 1..Len(links) :
            IsPropagation(i, j) =>
                LET fv == DictGet(entities, links[j].v.entity_id)[1]
                IN  \A t \in EntityTablesOf(links[i].v.entity_id) :
                    \A n \in PrimaryKeysOf(fv.id) :
                        \E col \in ColumnsOf(t) :
                            /\ col.name = <<"f", "k", "_">> \o _safe_name(fv.name)
                                            \o <<"_">> \o fv.attributes[n].name
                            /\ col.is_foreign_key
                            /\ ~col.is_primary_key
                            /\ col.references_table = Some(_safe_name(fv.name))
                            /\ col.references_column = Some(_safe_name(fv.attributes[n].name))
                            /\ col.is_nullable <=> (links[i].v.cardinality_min = "0")

\* The (entity id, attribute index) pairs of the key columns of the junction
\* table of association a: the links of a in link order, and for each link
\* on a stored entity the primary-key attributes of that entity in order.
JunctionKeysOf(a) ==
    Concat([i \in 1..Len(links) |->
              IF links[i].v.association_id = a /\ DictHas(entities, links[i].v.entity_id)
              THEN LET ev == DictGet(entities, links[i].v.entity_id)[1]
                       pks == SelectSeq([n \in 1..Len(ev.attributes) |-> n],
                                        LAMBDA n : ev.attributes[n].is_primary_key)
                   IN  [k \in 1..Len(pks) |-> [entity_id |-> ev.id, attr |-> pks[k]]]
              ELSE <<>>])

\* Association x carries quantite alone and has two links of maximum "N" on
\* two stored entities with one primary-key attribute each
IsConcernerScenario(x) ==
    LET of == LinksOf(associations[x].k)
    IN  /\ associations[x].v.name = Concerner
        /\ Len(associations[x].v.attributes) = 1
        /\ associations[x].v.attributes[1].name = quantite
        /\ Cardinality(of) = 2
        /\ \A i \in of :
              /\ links[i].v.cardinality_max = "N"
              /\ DictHas(entities, links[i].v.entity_id)
              /\ Cardinality(PrimaryKeysOf(links[i].v.entity_id)) = 1
        /\ \E i, j \in of : links[i].v.entity_id # links[j].v.entity_id

\* C23: a junction table is named by the sanitized name of its association;
\* its columns are, for every link of the association in link order and each
\* primary-key attribute of the linked entity, one column that is
\* primary-key, foreign-key, not nullable and references the table and the
\* key column of that entity, then one column per carrying attribute that is
\* nullable, not primary-key and not foreign-key.  The association Concerner
\* carrying quantite, linked with maximum "N" to two single-key entities,
\* gives one table of two such key columns and the column quantite.
C23_JunctionTableColumns ==
    lastOp = "transform" =>
        \A x \in 1..Len(associations) :
            LET assoc == associations[x].v
                keys == JunctionKeysOf(assoc.id)
            IN  /\ \A t \in JunctionTablesOf(assoc.id) :
                      LET cols == tables[t].columns
                      IN  /\ tables[t].name = _safe_name(assoc.name)
                          /\ Len(cols) = Len(keys) + Len(assoc.attributes)
                          /\ \A k \in 1..Len(keys) :
                                /\ cols[k].is_primary_key
                                /\ cols[k].is_foreign_key
                                /\ ~cols[k].is_nullable
                                /\ \E te \in EntityTablesOf(keys[k].entity_id) :
                                      /\ cols[k].references_table = Some(tables[te].name)
                                      /\ cols[k].references_column
                                           = Some(tables[te].columns[keys[k].attr].name)
                                      /\ tables[te].columns[keys[k].attr].is_primary_key
                          /\ \A n \in 1..Len(assoc.attributes) :
                                LET col == cols[Len(keys) + n]
                                IN  /\ col.name = _safe_name(assoc.attributes[n].name)
                                    /\ col.is_nullable
                                    /\ ~col.is_primary_key
                                    /\ ~col.is_foreign_key
                                    /\ col.references_table = None
                /\ IsConcernerScenario(x) =>
                      /\ Cardinality(JunctionTablesOf(assoc.id)) = 1
                      /\ \A t \in JunctionTablesOf(assoc.id) :
                            /\ tables[t].name = <<"c", "o", "n", "c", "e", "r", "n", "e", "r">>
                            /\ Len(tables[t].columns) = 3
                            /\ tables[t].columns[3].name = quantite

\* C23 witness: transform has built the junction table of Concerner, whose
\* carrying attribute is flagged primary key, with a key column for a link of
\* maximum "1" on one stored entity and one for a link of maximum "N" on
\* another.
C23_Witness ==
    /\ lastOp = "transform"
    /\ \E x \in 1..Len(associations) : \E i, j \in LinksOf(associations[x].k) :
          /\ associations[x].v.name = Concerner
          /\ associations[x].v.attributes[1].is_primary_key
          /\ links[i].v.cardinality_max = "1"
          /\ links[j].v.cardinality_max = "N"
          /\ links[i].v.entity_id # links[j].v.entity_id
          /\ Len(JunctionKeysOf(associations[x].k)) >= 2
          /\ \E t \in JunctionTablesOf(associations[x].k) :
                Len(tables[t].columns) = Len(JunctionKeysOf(associations[x].k)) + 1

\* C24: every table transform returns has pairwise distinct column names.
C24_ColumnNamesDistinct ==
    lastOp = "transform" =>
        \A t \in 1..Len(tables) : \A c, d \in 1..Len(tables[t].columns) :
            tables[t].columns[c].name = tables[t].columns[d].name => c = d

\* C25: if two distinct associations without carrying attributes each
\* connect the stored entity E by a link of maximum "1" and the stored
\* entity F, which has a primary key, by a link of maximum "N", each of them
\* has its own foreign-key columns on the table of E, one per primary-key
\* attribute of F, nullable iff the minimum of its own link on E is "0".
C25_EachAssociationRepresented ==
    lastOp = "transform" =>
        \A x, y \in 1..Len(associations) : \A i, j, k, l \in 1..Len(links) :
            ( /\ x # y
              /\ IsOneToMany(x, i, j) /\ IsPropagation(i, j)
              /\ IsOneToMany(y, k, l) /\ IsPropagation(k, l)
              /\ links[i].v.entity_id = links[k].v.entity_id
              /\ links[j].v.entity_id = links[l].v.entity_id ) =>
                \A own \in {<<x, i>>, <<y, k>>} :
                    LET added == FkAddedOn(associations[own[1]].k, links[i].v.entity_id)
                    IN  /\ Cardinality(added)
                             = Cardinality(PrimaryKeysOf(links[j].v.entity_id))
                        /\ \A n \in added :
                              fk_log[n].column.is_nullable
                                <=> (links[own[2]].v.cardinality_min = "0")

\* C26: every column of the output that is foreign-key has references_table
\* and references_column set, references_table names a table of the output
\* and references_column names a primary-key column of such a table.
C26_ForeignKeysResolve ==
    lastOp = "transform" =>
        \A t \in 1..Len(tables) : \A col \in ColumnsOf(t) :
            col.is_foreign_key =>
                /\ col.references_table # None
                /\ col.references_column # None
                /\ \E r \in 1..Len(tables) :
                      /\ Some(tables[r].name) = col.references_table
                      /\ \E key \in ColumnsOf(r) :
                            /\ key.is_primary_key
                            /\ Some(key.name) = col.references_column

\* C26 witness: transform has put a foreign key into an entity table and
\* key columns into a junction table, for an entity whose primary-key
\* attribute is not named by an identifier.
C26_Witness ==
    /\ lastOp = "transform"
    /\ fk_log # <<>>
    /\ \E t \in 1..Len(tables) :
          /\ tables[t].source_type = "association"
          /\ \E col \in ColumnsOf(t) :
                col.is_foreign_key /\ col.references_column = Some(id_client)
    /\ \E i \in 1..Len(entities) :
          \E n \in 1..Len(entities[i].v.attributes) :
              /\ entities[i].v.attributes[n].name = Id_Client
              /\ entities[i].v.attributes[n].is_primary_key
    /\ \E k \in 1..Len(fk_log) : fk_log[k].column.references_column = Some(id_client)

\* C27: every table name and every column name of the output is a fixed
\* point of _safe_name.
C27_NamesSanitized ==
    lastOp = "transform" =>
        \A t \in 1..Len(tables) :
            /\ _safe_name(tables[t].name) = tables[t].name
            /\ \A col \in ColumnsOf(t) : _safe_name(col.name) = col.name


\* C28: for all (table, column) pairs (t1, o1) and (t2, o2) that differ,
\* set_mld_column_name(t1, o1, n) leaves get_mld_column_name(t2, o2)
\* unchanged, names containing "." included.
C28_DistinctPairsIndependent ==
    [][ \A set \in OvPairs, other \in OvPairs, n \in OvNewNames :
          (set # other /\ set_mld_column_name(set[1], set[2], n)) =>
              get_mld_column_name(mld_column_overrides', other[1], other[2])
                = get_mld_column_name(mld_column_overrides, other[1], other[2]) ]_vars

\* C29: after q = Project.from_dict(p.to_dict()), a set_mld_column_name on q
\* leaves the store of p, hence get_mld_column_name and get_all_mld_overrides
\* of p, unchanged, and a set_mld_column_name on p leaves the store of q
\* unchanged.
C29_RestoredIndependent ==
    [][ (restored # None /\ restored' # None) =>
          /\ lastOp' = "q.set_mld_column_name" =>
                mld_column_overrides' = mld_column_overrides
          /\ lastOp' = "set_mld_column_name" =>
                restored_overrides' = restored_overrides ]_vars


\* The four dicts of the project right after the from_dict or the clear
\* that built or emptied it
AfterLoadOrClear ==
    IF returned = None
    THEN <<(<<>>), (<<>>), (<<>>), (<<>>)>>
    ELSE LET loaded == Project_from_dict(returned[1])
         IN  <<loaded.entities, loaded.associations, loaded.links,
               loaded.mld_column_overrides>>

\* C30: in every state reached from a project just built by from_dict or
\* emptied by clear through add_entity, add_association, add_link,
\* remove_entity, remove_association, remove_link and set_mld_column_name,
\* modified is True if the entities, associations, links or overrides
\* differ from what they were right after that from_dict or clear; and a
\* remove call on an id that is not stored changes none of them, nor
\* modified.
C30_ModifiedNeverMissesChange ==
    [][ /\ <<entities', associations', links', mld_column_overrides'>> # AfterLoadOrClear'
            => modified'
        /\ \A entity_id \in EntityIds :
              (remove_entity(entity_id) /\ ~DictHas(entities, entity_id))
                  => project' = project
        /\ \A association_id \in AssociationIds :
              (remove_association(association_id) /\ ~DictHas(associations, association_id))
                  => project' = project
        /\ \A link_id \in LinkIds :
              (remove_link(link_id) /\ ~DictHas(links, link_id))
                  => project' = project ]_vars

\* C30 witness: the project was built from a dict holding a link; the last
\* call removed a stored link, the links differ from those loaded and
\* modified is True.
C30_Witness ==
    /\ lastOp = "remove_link"
    /\ returned # None
    /\ Project_from_dict(returned[1]).links # <<>>
    /\ links = <<>>
    /\ entities = Project_from_dict(returned[1]).entities
    /\ associations = Project_from_dict(returned[1]).associations
    /\ mld_column_overrides = Project_from_dict(returned[1]).mld_column_overrides
    /\ modified

====
